---- MODULE Spec2Model ----
(***************************************************************************)
(* A model of drait's extraction and inference pipeline                    *)
(* (src/src/drait/parsers/python_parser.py, src/src/drait/metamodel.py).   *)
(*                                                                         *)
(* The specifications share the module's variables:                        *)
(*   Spec      - PythonParser.parse_source on one unit: class extraction,  *)
(*               the relationship inference loop, the returned Package,    *)
(*               and a second call of the same parser on the same text;    *)
(*   SpecTypes - PythonParser._parse_type_annotation on annotation         *)
(*               expressions built up by nesting;                          *)
(*   SpecFolder - parse_folder_to_project on a folder of .py files, and    *)
(*               the to_dict / from_dict round trip of its Project;        *)
(*   SpecParallel - two threads calling parse_source, on one PythonParser  *)
(*               or on one each;                                           *)
(*   SpecMember - one method or attribute declaration, written and         *)
(*               extracted;                                                *)
(*   SpecClass - one class declaration, written and given to               *)
(*               _extract_class;                                           *)
(*   SpecCalls - parse_source called again and again on one PythonParser.  *)
(* Python's None is the string NONE wherever a field is Optional[str]; a   *)
(* propagating exception is a record with an "exception" field.            *)
(***************************************************************************)
EXTENDS Integers, Sequences, FiniteSets, TLC

VARIABLES
    ann,            \* SpecTypes: the ast expression passed to _parse_type_annotation
    resolved,       \* SpecTypes: what the call returned (NoResult before the call)
    tpc,            \* SpecTypes: "ready" (call pending) | "parsed" | "matched"
    base_type_name, \* SpecTypes: what _get_base_type_name returned for resolved (NONE
                    \* before the call)
    source,         \* the text given to parse_source: the ClassDef nodes of its tree, in
                    \* ast.walk order
    syntax_error,   \* the SyntaxError ast.parse raises on the text (NoSyntaxError if none)
    source_name,    \* the source_name given to parse_source
    pc,             \* parse_source: "write" (to be called) | "infer" | "done" | "raised"
    classes,        \* Spec: self.classes
    relationships,  \* Spec: the relationships list of _infer_relationships
    k,              \* Spec: number of classes the inference loop has handled
    passes,         \* Spec: per handled class, what the three inference passes returned
    package,        \* Spec: the Package parse_source returned (NoResult before)
    calls,          \* number of parse_source calls begun: each reads fresh entropy
    previous,       \* Spec: the Package an earlier call returned (NoResult if none)
    set_orders,     \* the orders in which the running process iterates the sets of str
                    \* it has built, by the sequence of their add calls
    files,          \* SpecFolder: the texts of the .py files of the folder, in sorted order
    fpc,            \* parse_folder_to_project: "idle" | "listing" | "loop" | "parsing" |
                    \* "returned" | "raised" | "loaded"
    fi,             \* SpecFolder: number of files the loop has handled
    package_classes,        \* SpecFolder: package_classes of the folder's package
    package_relationships,  \* SpecFolder: package_relationships of the folder's package
    project,        \* SpecFolder: the Project returned or the exception raised
    loaded,         \* SpecFolder: Project.from_dict(project.to_dict())
    threads,        \* SpecParallel: per thread, the position and the locals of its call
    lists,          \* SpecParallel: the list objects self.classes has been bound to
    self_classes,   \* SpecParallel: per PythonParser, the list object its self.classes is bound to
    decl,           \* SpecMember: the declaration in a class body: a FunctionDef, an
                    \* Assign or an AnnAssign
    member,         \* SpecMember: the Method or the Attribute extracted from decl
    mpc,            \* SpecMember: "write" (decl being written) | "extracted"
    classdef,       \* SpecClass: the ClassDef given to _extract_class
    extracted,      \* SpecClass: the Class _extract_class returned
    cpc,            \* SpecClass: "write" (classdef being written) | "extracted"
    returned        \* SpecCalls: per parse_source call so far, its arguments and what
                    \* it returned or raised

typeVars == <<ann, resolved, tpc, base_type_name>>
\* the arguments of a parse_source call, and the state of the call
textVars == <<source, syntax_error, source_name>>
callVars == <<pc, classes, relationships, k, passes, package, calls, previous, set_orders>>
unitVars == <<textVars, callVars>>

folderVars == <<files, fpc, fi, package_classes, package_relationships, project, loaded>>

threadVars == <<threads, lists, self_classes>>

memberVars == <<decl, member, mpc>>

classVars == <<classdef, extracted, cpc>>

vars == <<typeVars, unitVars, folderVars, threadVars, memberVars, classVars, returned>>

\* what the actions of one specification leave alone
nonTypeVars == <<unitVars, folderVars, threadVars, memberVars, classVars, returned>>
nonUnitVars == <<typeVars, folderVars, threadVars, memberVars, classVars, returned>>
nonThreadVars == <<typeVars, unitVars, folderVars, memberVars, classVars, returned>>
nonMemberVars == <<typeVars, unitVars, folderVars, threadVars, classVars, returned>>
nonClassVars == <<typeVars, unitVars, folderVars, threadVars, memberVars, returned>>
\* what the actions of SpecCalls leave alone, besides threads
nonCallsVars == <<typeVars, unitVars, folderVars, memberVars, classVars>>

(***************************************************************************)
(* Bounds of the model.                                                    *)
(***************************************************************************)
\* nesting depth of the annotation expressions of SpecTypes
MaxDepth == 2
\* size of a unit of Spec: its classes plus their base entries and body statements
MaxSize == 4

NONE == "<None>"
NoResult == [result |-> NONE]
NoSyntaxError == [exception |-> NONE, msg |-> NONE, lineno |-> 0]
\* no set of str iterated yet
NoOrders == [adds \in {} |-> <<>>]

(***************************************************************************)
(* Strings and Python values.                                              *)
(***************************************************************************)
RECURSIVE Join(_, _)
Join(sep, strs) ==
    IF strs = <<>> THEN ""
    ELSE IF Len(strs) = 1 THEN strs[1]
    ELSE strs[1] \o sep \o Join(sep, Tail(strs))

PyStrValue(s) == [type |-> "str", s |-> s]
PyNoneValue == [type |-> "NoneType", s |-> ""]

\* str(value) of a constant's value
PyStr(value) == IF value.type = "NoneType" THEN "None" ELSE value.s

\* repr(value) of a constant's value, as ast.unparse writes it
PyRepr(value) ==
    IF value.type = "NoneType" THEN "None"
    ELSE IF value.type = "str" THEN "'" \o value.s \o "'"
    ELSE value.s

PyException(type) == [exception |-> type]
Raised(v) == "exception" \in DOMAIN v

(***************************************************************************)
(* ast expression nodes.  ast_expr(kind, text) is a node of any other      *)
(* class (Call, List, Dict, Set, ...): it carries the text ast.unparse     *)
(* renders for it, NONE when ast.unparse raises.  NoNode is an absent      *)
(* child.                                                                  *)
(***************************************************************************)
ast_Name(id) == [kind |-> "Name", id |-> id]
ast_Constant(value) == [kind |-> "Constant", value |-> value]
ast_Subscript(value, slice) == [kind |-> "Subscript", value |-> value, slice |-> slice]
ast_Tuple(elts) == [kind |-> "Tuple", elts |-> elts]
ast_BinOp(left, op, right) == [kind |-> "BinOp", left |-> left, op |-> op, right |-> right]
ast_Attribute(value, attr) == [kind |-> "Attribute", value |-> value, attr |-> attr]
ast_expr(kind, text) == [kind |-> kind, text |-> text]
NoNode == [kind |-> "NoneType"]

RECURSIVE DottedParts(_)
DottedParts(current) ==
    IF current.kind = "Attribute" THEN Append(DottedParts(current.value), current.attr)
    ELSE IF current.kind = "Name" THEN <<current.id>>
    ELSE <<>>

_get_attribute_name(node) == Join(".", DottedParts(node))

_get_module_from_attribute(node) ==
    IF node.value.kind = "Name" THEN node.value.id
    ELSE IF node.value.kind = "Attribute" THEN Join(".", DottedParts(node.value))
    ELSE NONE

\* ast.unparse: the source text of a node, NONE when it raises
RECURSIVE Unparse(_)
Unparse(node) ==
    CASE node.kind = "Name" -> node.id
      [] node.kind = "Constant" -> PyRepr(node.value)
      [] node.kind = "Attribute" ->
            LET v == Unparse(node.value)
            IN  IF v = NONE THEN NONE ELSE v \o "." \o node.attr
      [] node.kind = "Subscript" ->
            LET v == Unparse(node.value)
                s == Unparse(node.slice)
            IN  IF v = NONE \/ s = NONE THEN NONE ELSE v \o "[" \o s \o "]"
      [] node.kind = "Tuple" ->
            LET es == [i \in DOMAIN node.elts |-> Unparse(node.elts[i])]
            IN  IF \E i \in DOMAIN es : es[i] = NONE THEN NONE ELSE Join(", ", es)
      [] node.kind = "BinOp" ->
            LET l == Unparse(node.left)
                r == Unparse(node.right)
                o == IF node.op = "BitOr" THEN " | " ELSE " & "
            IN  IF l = NONE \/ r = NONE THEN NONE ELSE l \o o \o r
      [] OTHER -> node.text

(***************************************************************************)
(* metamodel.TypeReference                                                 *)
(***************************************************************************)
TypeReference(name, module, type_arguments, is_optional) ==
    [name |-> name, module |-> module, type_arguments |-> type_arguments,
     is_optional |-> is_optional]

SimpleType(name) == TypeReference(name, NONE, <<>>, FALSE)

\* TypeReference.__str__
RECURSIVE TypeStr(_)
TypeStr(t) ==
    LET base == IF t.type_arguments # <<>>
                THEN t.name \o "["
                     \o Join(", ", [i \in DOMAIN t.type_arguments |-> TypeStr(t.type_arguments[i])])
                     \o "]"
                ELSE t.name
    IN  IF t.is_optional THEN base \o " | None" ELSE base

\* the first exception among the results of a sequence of calls, if any
FirstRaised(results) ==
    LET bad == {i \in DOMAIN results : Raised(results[i])}
    IN  results[CHOOSE i \in bad : \A j \in bad : i <= j]

AnyRaised(results) == \E i \in DOMAIN results : Raised(results[i])

(***************************************************************************)
(* The type annotation resolver.                                           *)
(***************************************************************************)
RECURSIVE _parse_type_annotation(_)
RECURSIVE _parse_subscript_type(_)
RECURSIVE _parse_union_type(_)

_parse_attribute_type(node) ==
    TypeReference(node.attr, _get_module_from_attribute(node), <<>>, FALSE)

\* FallbackType without its except clause: a failing ast.unparse propagates
FallbackType_no_except(annotation) ==
    LET type_str == Unparse(annotation)
    IN  IF type_str = NONE THEN PyException("Exception") ELSE SimpleType(type_str)

\* the else branch of _parse_type_annotation
FallbackType(annotation) ==
    LET type_str == Unparse(annotation)
    IN  IF type_str = NONE THEN SimpleType("Any") ELSE SimpleType(type_str)

_parse_type_annotation(annotation) ==
    CASE annotation.kind = "Name" -> SimpleType(annotation.id)
      [] annotation.kind = "Constant" -> SimpleType(PyStr(annotation.value))
      [] annotation.kind = "Subscript" -> _parse_subscript_type(annotation)
      [] annotation.kind = "BinOp" /\ annotation.op = "BitOr" -> _parse_union_type(annotation)
      [] annotation.kind = "Attribute" -> _parse_attribute_type(annotation)
      [] OTHER -> FallbackType(annotation)

\* base_name and module of a subscript
SubscriptBase(node) ==
    IF node.value.kind = "Name" THEN [base_name |-> node.value.id, module |-> NONE]
    ELSE IF node.value.kind = "Attribute"
    THEN [base_name |-> node.value.attr, module |-> _get_module_from_attribute(node.value)]
    ELSE LET text == Unparse(node.value)
         IN  [base_name |-> IF text = NONE THEN "Any" ELSE text, module |-> NONE]

\* what _parse_subscript_type returns once base_name, module and type_args are known
SubscriptResult(base_name, module, type_args) ==
    IF base_name = "Optional"
    THEN IF type_args # <<>>
         THEN [type_args[1] EXCEPT !.is_optional = TRUE]
         ELSE TypeReference("Any", NONE, <<>>, TRUE)
    ELSE IF base_name = "Union"
    THEN SimpleType("Union["
                    \o Join(", ", [i \in DOMAIN type_args |-> TypeStr(type_args[i])])
                    \o "]")
    ELSE TypeReference(base_name, module, type_args, FALSE)

_parse_subscript_type(node) ==
    LET base == SubscriptBase(node)
        type_args ==
            IF node.slice.kind = "Tuple"
            THEN [i \in DOMAIN node.slice.elts |-> _parse_type_annotation(node.slice.elts[i])]
            ELSE <<_parse_type_annotation(node.slice)>>
    IN  IF AnyRaised(type_args) THEN FirstRaised(type_args)
        ELSE SubscriptResult(base.base_name, base.module, type_args)

\* the operands of a chain of | operators, left to right
RECURSIVE collect_union_types(_)
collect_union_types(n) ==
    IF n.kind = "BinOp" /\ n.op = "BitOr"
    THEN collect_union_types(n.left) \o collect_union_types(n.right)
    ELSE <<n>>

\* UnionResult that returns the one operand besides None without flagging it
UnionResult_no_optional(types) ==
    LET has_none == \E i \in DOMAIN types : types[i].name = "None"
        non_none_types == SelectSeq(types, LAMBDA t : t.name # "None")
        types_str == Join(" | ", [i \in DOMAIN types |-> TypeStr(types[i])])
    IN  IF has_none /\ Len(non_none_types) = 1
        THEN non_none_types[1]
        ELSE SimpleType(types_str)

\* UnionResult that joins the operands as the subscripted Union does
UnionResult_comma(types) ==
    LET has_none == \E i \in DOMAIN types : types[i].name = "None"
        non_none_types == SelectSeq(types, LAMBDA t : t.name # "None")
        types_str == Join(", ", [i \in DOMAIN types |-> TypeStr(types[i])])
    IN  IF has_none /\ Len(non_none_types) = 1
        THEN [non_none_types[1] EXCEPT !.is_optional = TRUE]
        ELSE SimpleType(types_str)

\* what _parse_union_type returns once the operands are resolved
UnionResult(types) ==
    LET has_none == \E i \in DOMAIN types : types[i].name = "None"
        non_none_types == SelectSeq(types, LAMBDA t : t.name # "None")
        types_str == Join(" | ", [i \in DOMAIN types |-> TypeStr(types[i])])
    IN  IF has_none
        THEN IF Len(non_none_types) = 1
             THEN [non_none_types[1] EXCEPT !.is_optional = TRUE]
             ELSE SimpleType(types_str)
        ELSE SimpleType(types_str)

_parse_union_type(node) ==
    LET operands == collect_union_types(node)
        types == [i \in DOMAIN operands |-> _parse_type_annotation(operands[i])]
    IN  IF AnyRaised(types) THEN FirstRaised(types) ELSE UnionResult(types)

(***************************************************************************)
(* SpecTypes: annotation expressions and their resolution.                 *)
(***************************************************************************)
NoneConstant == ast_Constant(PyNoneValue)

LeafAnnotations ==
    { ast_Name("A"), ast_Name("B"), NoneConstant,
      ast_Constant(PyStrValue("A")), ast_Constant(PyStrValue("")),
      ast_Attribute(ast_Name("m"), "A"), ast_Attribute(ast_Attribute(ast_Name("p"), "m"), "A"),
      ast_expr("Call", "f()"), ast_expr("Call", NONE) }

\* operands and arguments combined with the expression built so far
SideAnnotations == { ast_Name("B"), NoneConstant }

\* the callee expressions of the subscripts built
SubscriptValues ==
    { ast_Name("Optional"), ast_Attribute(ast_Name("typing"), "Optional"),
      ast_Name("Union"), ast_Name("List"), ast_expr("Call", "g()"), ast_expr("Call", NONE) }

RECURSIVE Depth(_)
Depth(e) ==
    CASE e.kind = "Subscript" -> 1 + Depth(e.slice)
      [] e.kind = "Tuple" ->
            LET ds == {Depth(e.elts[i]) : i \in DOMAIN e.elts}
            IN  CHOOSE d \in ds : \A x \in ds : x <= d
      [] e.kind = "BinOp" ->
            1 + (IF Depth(e.left) >= Depth(e.right) THEN Depth(e.left) ELSE Depth(e.right))
      [] OTHER -> 0

TypesInit ==
    /\ ann \in LeafAnnotations
    /\ resolved = NoResult
    /\ tpc = "ready"
    /\ base_type_name = NONE

\* a call of _parse_type_annotationotation
ParseTypeAnnotation ==
    /\ tpc = "ready"
    /\ resolved' = _parse_type_annotation(ann)
    /\ tpc' = "parsed"
    /\ UNCHANGED <<ann, base_type_name, nonTypeVars>>

\* the next input: value[ann]
WrapSubscript ==
    /\ tpc = "parsed"
    /\ Depth(ann) < MaxDepth
    /\ \E value \in SubscriptValues : ann' = ast_Subscript(value, ann)
    /\ resolved' = NoResult
    /\ tpc' = "ready"
    /\ UNCHANGED <<base_type_name, nonTypeVars>>

\* the next input: value[ann, side] or value[side, ann]
WrapSubscriptTuple ==
    /\ tpc = "parsed"
    /\ Depth(ann) < MaxDepth
    /\ \E value \in {ast_Name("Union"), ast_Name("Dict")}, side \in SideAnnotations :
          \/ ann' = ast_Subscript(value, ast_Tuple(<<ann, side>>))
          \/ ann' = ast_Subscript(value, ast_Tuple(<<side, ann>>))
    /\ resolved' = NoResult
    /\ tpc' = "ready"
    /\ UNCHANGED <<base_type_name, nonTypeVars>>

\* the next input: ann | side or side | ann
WrapUnion ==
    /\ tpc = "parsed"
    /\ Depth(ann) < MaxDepth
    /\ \E side \in SideAnnotations :
          \/ ann' = ast_BinOp(ann, "BitOr", side)
          \/ ann' = ast_BinOp(side, "BitOr", ann)
    /\ resolved' = NoResult
    /\ tpc' = "ready"
    /\ UNCHANGED <<base_type_name, nonTypeVars>>

UnitIdle ==
    /\ source = <<>>
    /\ syntax_error = NoSyntaxError
    /\ source_name = "<string>"
    /\ pc = "done"
    /\ classes = <<>>
    /\ relationships = <<>>
    /\ k = 0
    /\ passes = <<>>
    /\ package = NoResult
    /\ calls = 0
    /\ previous = NoResult
    /\ set_orders = NoOrders

FolderIdle ==
    /\ files = <<>>
    /\ fpc = "idle"
    /\ fi = 0
    /\ package_classes = <<>>
    /\ package_relationships = <<>>
    /\ project = NoResult
    /\ loaded = NoResult

ThreadsIdle ==
    /\ threads = <<>>
    /\ lists = <<>>
    /\ self_classes = <<>>

MemberIdle ==
    /\ decl = NoNode
    /\ member = NoResult
    /\ mpc = "idle"

ClassIdle ==
    /\ classdef = NoNode
    /\ extracted = NoResult
    /\ cpc = "idle"

CallsIdle == returned = <<>>

\* _get_base_type_name that looks one level down only
_get_base_type_name_one_level(type_ref) ==
    IF type_ref.type_arguments # <<>>
    THEN type_ref.type_arguments[1].name
    ELSE type_ref.name

RECURSIVE _get_base_type_name(_)
_get_base_type_name(type_ref) ==
    IF type_ref.type_arguments # <<>>
    THEN _get_base_type_name(type_ref.type_arguments[1])
    ELSE type_ref.name

\* the inference passes: type_name = self._get_base_type_name(attr.type), on the
\* type just resolved
GetBaseTypeName ==
    /\ tpc = "parsed"
    /\ base_type_name' = _get_base_type_name(resolved)
    /\ tpc' = "matched"
    /\ UNCHANGED <<ann, resolved, nonTypeVars>>

InitTypes ==
    TypesInit /\ UnitIdle /\ FolderIdle /\ ThreadsIdle /\ MemberIdle /\ ClassIdle /\ CallsIdle

NextTypes ==
    \/ ParseTypeAnnotation \/ WrapSubscript \/ WrapSubscriptTuple \/ WrapUnion
    \/ GetBaseTypeName

SpecTypes == InitTypes /\ [][NextTypes]_vars

(***************************************************************************)
(* ast statement nodes.                                                    *)
(***************************************************************************)
ast_ClassDef(name, bases, body) ==
    [kind |-> "ClassDef", name |-> name, bases |-> bases, body |-> body]
ast_AnnAssign(target, annotation, value) ==
    [kind |-> "AnnAssign", target |-> target, annotation |-> annotation, value |-> value]
ast_Assign(targets, value) == [kind |-> "Assign", targets |-> targets, value |-> value]
ast_arg(arg, annotation) == [arg |-> arg, annotation |-> annotation]
\* ast.arguments: vararg and kwarg are one ast.arg or NoNode
ast_arguments(posonlyargs, args, vararg, kwonlyargs, kwarg) ==
    [posonlyargs |-> posonlyargs, args |-> args, vararg |-> vararg,
     kwonlyargs |-> kwonlyargs, kwarg |-> kwarg]
ast_FunctionDef(name, args, returns, decorator_list, body) ==
    [kind |-> "FunctionDef", name |-> name, args |-> args, returns |-> returns,
     decorator_list |-> decorator_list, body |-> body]

RECURSIVE Concat(_)
Concat(seqs) == IF seqs = <<>> THEN <<>> ELSE Head(seqs) \o Concat(Tail(seqs))

(***************************************************************************)
(* str.startswith and str.endswith on member names.  A name of the model   *)
(* is underscores, a stem, underscores; NameParts holds every such string, *)
(* hence every remainder a name leaves behind a prefix or before a suffix  *)
(* of underscores.                                                         *)
(***************************************************************************)
Underscores == {"", "_", "__"}
Stems == {"", "x", "y", "n", "f", "init"}
NameParts == {lead \o stem \o trail : lead \in Underscores, stem \in Stems, trail \in Underscores}

startswith(str, prefix) == \E rest \in NameParts : str = prefix \o rest
endswith(str, suffix) == \E rest \in NameParts : str = rest \o suffix

\* "sub in str" on the names of base entries: BaseHeads and BaseTails hold what
\* the base names of the model have before and after an occurrence of "ABC"
BaseHeads == {"", "m.", "abc.", "My", "m.My"}
BaseTails == {"", "Meta", "D", "s.Foo"}
contains(str, sub) == \E head \in BaseHeads, tail \in BaseTails : str = head \o sub \o tail

(***************************************************************************)
(* metamodel: Parameter, Attribute, Method, Class, Relationship, Package.  *)
(* NoType is a None type.  A Relationship's own id (a uuid4), the          *)
(* decorators and the docstrings are not modelled.                         *)
(***************************************************************************)
NoType == [none |-> "TypeReference"]

\* uuid4(): random bits read from os.urandom.  rnd names the bits one call reads;
\* two calls that read different bits are taken to return different values
uuid4(rnd) == "uuid4(" \o rnd \o ")"

Parameter(name, type) == [name |-> name, type |-> type]

Attribute(name, type, id, visibility, default_value, is_static) ==
    [name |-> name, type |-> type, id |-> id, visibility |-> visibility,
     default_value |-> default_value, is_static |-> is_static]

Method(name, id, parameters, return_type, visibility, is_static, is_class_method, is_abstract) ==
    [name |-> name, id |-> id, parameters |-> parameters, return_type |-> return_type,
     visibility |-> visibility, is_static |-> is_static,
     is_class_method |-> is_class_method, is_abstract |-> is_abstract]

\* uuid5(NAMESPACE_DNS, "drait:<name>"): a hash of the string, taken to be free of collisions
generate_deterministic_uuid(name) == "uuid5(drait:" \o name \o ")"

\* dict.get(key, default) on a metadata dict
MetadataGet(metadata, key, default) ==
    IF key \in DOMAIN metadata THEN metadata[key] ELSE default

\* the id Class.__post_init__ assigns
ClassId(name, metadata) ==
    LET source_file == MetadataGet(metadata, "source_file", "")
        namespace == IF source_file # "" THEN source_file \o ":" \o name ELSE name
    IN  generate_deterministic_uuid(namespace)

EmptyDict == [key \in {} |-> ""]

\* the dataclass constructor and __post_init__: whatever id is passed, the id is
\* the one __post_init__ derives
Class(name, base_classes, attributes, methods, is_abstract, metadata) ==
    [name |-> name, id |-> ClassId(name, metadata), attributes |-> attributes,
     methods |-> methods, base_classes |-> base_classes, is_abstract |-> is_abstract,
     metadata |-> metadata]

Relationship(type, source_id, target_id, source_role, target_role) ==
    [type |-> type, source_id |-> source_id, target_id |-> target_id,
     source_role |-> source_role, target_role |-> target_role]

Package(name, id, class_list, relationship_list) ==
    [name |-> name, id |-> id, classes |-> class_list, relationships |-> relationship_list]

(***************************************************************************)
(* Member and class extraction.  The parameter rnd of an operator names    *)
(* the random bits the uuid4 calls made under it read.                     *)
(***************************************************************************)
_infer_type_from_value(value_node) ==
    CASE value_node.kind = "Constant" -> SimpleType(value_node.value.type)
      [] value_node.kind = "List" -> SimpleType("list")
      [] value_node.kind = "Dict" -> SimpleType("dict")
      [] value_node.kind = "Set" -> SimpleType("set")
      [] value_node.kind = "Tuple" -> SimpleType("tuple")
      [] OTHER -> SimpleType("Any")

_get_visibility_from_name(name) ==
    IF startswith(name, "__") /\ ~endswith(name, "__") THEN "private"
    ELSE IF startswith(name, "_") THEN "protected"
    ELSE "public"

\* default_value: ast.unparse(value_node), None without a value or when it raises
DefaultValue(value_node) ==
    IF value_node = NoNode THEN NONE
    ELSE IF value_node.kind = "Tuple" /\ Unparse(value_node) # NONE
    THEN "(" \o Unparse(value_node) \o (IF Len(value_node.elts) = 1 THEN ",)" ELSE ")")
    ELSE Unparse(value_node)

_create_attribute_from_assignment(name, value_node, is_static, rnd) ==
    Attribute(name, _infer_type_from_value(value_node), uuid4(rnd),
              _get_visibility_from_name(name), DefaultValue(value_node), is_static)

_create_attribute_from_annotated_assignment(name, annotation, value_node, is_static, rnd) ==
    Attribute(name, _parse_type_annotation(annotation), uuid4(rnd),
              _get_visibility_from_name(name), DefaultValue(value_node), is_static)

\* the attributes one statement of a class body contributes
ClassBodyAttributes(item, rnd) ==
    IF item.kind = "Assign"
    THEN LET targets == SelectSeq(item.targets, LAMBDA target : target.kind = "Name")
         IN  [i \in DOMAIN targets |->
                 _create_attribute_from_assignment(targets[i].id, item.value, TRUE,
                                                   rnd \o "." \o ToString(i))]
    ELSE IF item.kind = "AnnAssign" /\ item.target.kind = "Name"
    THEN <<_create_attribute_from_annotated_assignment(
               item.target.id, item.annotation, item.value, TRUE, rnd)>>
    ELSE <<>>

_extract_class_attributes(node, rnd) ==
    Concat([i \in DOMAIN node.body |->
               ClassBodyAttributes(node.body[i], rnd \o ".a" \o ToString(i))])

IsSelfAttribute(target) ==
    /\ target.kind = "Attribute"
    /\ target.value.kind = "Name"
    /\ target.value.id = "self"

\* the attributes one statement of __init__'s body contributes
InitBodyAttributes(item, rnd) ==
    IF item.kind = "Assign"
    THEN LET targets == SelectSeq(item.targets, IsSelfAttribute)
         IN  [i \in DOMAIN targets |->
                 _create_attribute_from_assignment(targets[i].attr, item.value, FALSE,
                                                   rnd \o "." \o ToString(i))]
    ELSE IF item.kind = "AnnAssign" /\ IsSelfAttribute(item.target)
    THEN <<_create_attribute_from_annotated_assignment(
               item.target.attr, item.annotation, item.value, FALSE, rnd)>>
    ELSE <<>>

_extract_init_attributes(node, rnd) ==
    Concat([i \in DOMAIN node.body |->
               InitBodyAttributes(node.body[i], rnd \o ".s" \o ToString(i))])

_is_static_method(node) ==
    \E i \in DOMAIN node.decorator_list :
        /\ node.decorator_list[i].kind = "Name"
        /\ node.decorator_list[i].id = "staticmethod"

_is_class_method(node) ==
    \E i \in DOMAIN node.decorator_list :
        /\ node.decorator_list[i].kind = "Name"
        /\ node.decorator_list[i].id = "classmethod"

_is_abstract_method(node) ==
    \E i \in DOMAIN node.decorator_list :
        \/ /\ node.decorator_list[i].kind = "Name"
           /\ node.decorator_list[i].id = "abstractmethod"
        \/ /\ node.decorator_list[i].kind = "Attribute"
           /\ node.decorator_list[i].attr = "abstractmethod"

_extract_parameter(arg) ==
    Parameter(arg.arg,
              IF arg.annotation # NoNode THEN _parse_type_annotation(arg.annotation)
              ELSE NoType)

\* the loop over node.args.args: the entry at index 0 is skipped unless the method is static
_extract_method(node, rnd) ==
    LET is_static == _is_static_method(node)
        skip_first == ~is_static
        args == node.args.args
        kept == IF skip_first /\ args # <<>> THEN Tail(args) ELSE args
    IN  Method(node.name, uuid4(rnd),
               [i \in DOMAIN kept |-> _extract_parameter(kept[i])],
               IF node.returns # NoNode THEN _parse_type_annotation(node.returns) ELSE NoType,
               _get_visibility_from_name(node.name),
               is_static, _is_class_method(node), _is_abstract_method(node))

\* BaseClassNames that records the final segment of a dotted entry
BaseClassNames_final_segment(bases) ==
    LET named == SelectSeq(bases, LAMBDA base : base.kind \in {"Name", "Attribute"})
    IN  [i \in DOMAIN named |->
            IF named[i].kind = "Name" THEN named[i].id ELSE named[i].attr]

\* the base names _extract_class records: Name and Attribute entries, others are skipped
BaseClassNames(bases) ==
    LET named == SelectSeq(bases, LAMBDA base : base.kind \in {"Name", "Attribute"})
    IN  [i \in DOMAIN named |->
            IF named[i].kind = "Name" THEN named[i].id ELSE _get_attribute_name(named[i])]

\* the test _extract_class makes on one base entry: a Name that is ABC or ABCMeta, an
\* Attribute whose dotted name has "ABC" in it
IsAbstractBase(base) ==
    \/ base.kind = "Name" /\ base.id \in {"ABC", "ABCMeta"}
    \/ base.kind = "Attribute" /\ contains(_get_attribute_name(base), "ABC")

_extract_class(node, rnd) ==
    LET functions == SelectSeq(node.body, LAMBDA item : item.kind = "FunctionDef")
        inits == {i \in DOMAIN functions : functions[i].name = "__init__"}
        attributes ==
            _extract_class_attributes(node, rnd)
            \o Concat([i \in DOMAIN functions |->
                          IF i \in inits
                          THEN _extract_init_attributes(functions[i], rnd \o ".i" \o ToString(i))
                          ELSE <<>>])
        methods == [i \in DOMAIN functions |->
                       _extract_method(functions[i], rnd \o ".m" \o ToString(i))]
    IN  Class(node.name, BaseClassNames(node.bases), attributes, methods,
              \E i \in DOMAIN node.bases : IsAbstractBase(node.bases[i]), EmptyDict)

(***************************************************************************)
(* Relationship inference.                                                 *)
(***************************************************************************)
collection_types ==
    {"List", "list", "Set", "set", "Dict", "dict", "Tuple", "tuple", "Sequence", "Iterable"}

_is_collection_type(type_ref) == type_ref.name \in collection_types

\* class_names = set(class_map.keys())
ClassNamesOf(cs) == {cs[i].name : i \in DOMAIN cs}

\* class_map = {cls.name: cls.id for cls in self.classes}: the last class of a name wins
ClassMapOf(cs) ==
    [n \in ClassNamesOf(cs) |->
        LET last == CHOOSE i \in DOMAIN cs :
                        /\ cs[i].name = n
                        /\ \A j \in DOMAIN cs : cs[j].name = n => j <= i
        IN  cs[last].id]

\* _infer_inheritance that leaves its loop at the first base of the unit
_infer_inheritance_first_only(cls, class_names, class_map) ==
    LET bases == SelectSeq(cls.base_classes, LAMBDA base_class : base_class \in class_names)
    IN  [i \in DOMAIN bases \cap {1} |->
            Relationship("inheritance", cls.id, class_map[bases[i]], "derived", "base")]

_infer_inheritance(cls, class_names, class_map) ==
    LET bases == SelectSeq(cls.base_classes, LAMBDA base_class : base_class \in class_names)
    IN  [i \in DOMAIN bases |->
            Relationship("inheritance", cls.id, class_map[bases[i]], "derived", "base")]

\* _infer_composition_aggregation without the test that the type is a class of
\* the unit: the target is the id the type's name would have
_infer_composition_aggregation_unchecked(cls, class_names, class_map) ==
    LET matching == SelectSeq(cls.attributes, LAMBDA attr : attr.type # NoType)
    IN  [i \in DOMAIN matching |->
            LET attr == matching[i]
                type_name == _get_base_type_name(attr.type)
                is_collection == _is_collection_type(attr.type)
                is_optional == attr.type.is_optional
            IN  IF is_collection \/ is_optional
                THEN Relationship("aggregation", cls.id,
                                  generate_deterministic_uuid(type_name), "has", NONE)
                ELSE Relationship("composition", cls.id,
                                  generate_deterministic_uuid(type_name), "owns", NONE)]

\* _infer_composition_aggregation that asks for a collection and an optional type
_infer_composition_aggregation_both(cls, class_names, class_map) ==
    LET matching == SelectSeq(cls.attributes,
                              LAMBDA attr : /\ attr.type # NoType
                                            /\ _get_base_type_name(attr.type) \in class_names)
    IN  [i \in DOMAIN matching |->
            LET attr == matching[i]
                type_name == _get_base_type_name(attr.type)
                is_collection == _is_collection_type(attr.type)
                is_optional == attr.type.is_optional
            IN  IF is_collection /\ is_optional
                THEN Relationship("aggregation", cls.id, class_map[type_name], "has", NONE)
                ELSE Relationship("composition", cls.id, class_map[type_name], "owns", NONE)]

_infer_composition_aggregation(cls, class_names, class_map) ==
    LET matching == SelectSeq(cls.attributes,
                              LAMBDA attr : /\ attr.type # NoType
                                            /\ _get_base_type_name(attr.type) \in class_names)
    IN  [i \in DOMAIN matching |->
            LET attr == matching[i]
                type_name == _get_base_type_name(attr.type)
                is_collection == _is_collection_type(attr.type)
                is_optional == attr.type.is_optional
            IN  IF is_collection \/ is_optional
                THEN Relationship("aggregation", cls.id, class_map[type_name], "has", NONE)
                ELSE Relationship("composition", cls.id, class_map[type_name], "owns", NONE)]

\* attribute_types of _infer_dependencies
AttributeTypes(cls) ==
    {_get_base_type_name(cls.attributes[i].type) :
        i \in {j \in DOMAIN cls.attributes : cls.attributes[j].type # NoType}}

\* MethodDependencies without the test against attribute_types
MethodDependencies_no_attribute_test(method, class_names, attribute_types) ==
    LET params == {i \in DOMAIN method.parameters :
                      /\ method.parameters[i].name \notin {"self", "cls"}
                      /\ method.parameters[i].type # NoType}
        param_types == {_get_base_type_name(method.parameters[i].type) : i \in params}
        return_types == IF method.return_type # NoType
                        THEN {_get_base_type_name(method.return_type)}
                        ELSE {}
    IN  {type_name \in param_types \cup return_types : type_name \in class_names}

\* the type names one method adds to the set dependencies
MethodDependencies(method, class_names, attribute_types) ==
    LET params == {i \in DOMAIN method.parameters :
                      /\ method.parameters[i].name \notin {"self", "cls"}
                      /\ method.parameters[i].type # NoType}
        param_types == {_get_base_type_name(method.parameters[i].type) : i \in params}
        return_types == IF method.return_type # NoType
                        THEN {_get_base_type_name(method.return_type)}
                        ELSE {}
    IN  {type_name \in param_types \cup return_types :
            type_name \in class_names /\ type_name \notin attribute_types}

\* the type names one method passes to dependencies.add, in order
MethodAdds(method, class_names, attribute_types) ==
    LET params == SelectSeq(method.parameters,
                            LAMBDA param : /\ param.name \notin {"self", "cls"}
                                           /\ param.type # NoType)
        names == [i \in DOMAIN params |-> _get_base_type_name(params[i].type)]
                 \o (IF method.return_type # NoType
                     THEN <<_get_base_type_name(method.return_type)>>
                     ELSE <<>>)
    IN  SelectSeq(names, LAMBDA type_name : type_name \in MethodDependencies(method, class_names, attribute_types))

\* the add calls that build the set dependencies of one class
DependencyAdds(cls, class_names) ==
    Concat([i \in DOMAIN cls.methods |->
               MethodAdds(cls.methods[i], class_names, AttributeTypes(cls))])

\* the set dependencies of _infer_dependencies
Dependencies(cls, class_names) ==
    UNION {MethodDependencies(cls.methods[i], class_names, AttributeTypes(cls)) :
              i \in DOMAIN cls.methods}

\* the orders in which a set can be iterated
IterationOrders(set) ==
    {order \in [1..Cardinality(set) -> set] :
        \A i, j \in 1..Cardinality(set) : i # j => order[i] # order[j]}

\* the orders in which a process iterates the set that the add calls adds build:
\* the order depends on the process's hash seed, so it is any order the first
\* time and the same order from then on
ProcessOrders(orders, adds) ==
    IF adds \in DOMAIN orders THEN {orders[adds]}
    ELSE IterationOrders({adds[i] : i \in DOMAIN adds})

\* the orders of the process once it has iterated that set in that order
Iterated(orders, adds, order) ==
    IF Len(order) < 2 \/ adds \in DOMAIN orders THEN orders
    ELSE [a \in DOMAIN orders \cup {adds} |-> IF a = adds THEN order ELSE orders[a]]

\* order is the order in which the loop iterates the set dependencies
_infer_dependencies(cls, class_map, order) ==
    [i \in DOMAIN order |->
        Relationship("dependency", cls.id, class_map[order[i]], "uses", NONE)]

(***************************************************************************)
(* Spec: parse_source on one unit.                                         *)
(***************************************************************************)
ClassNames == {"A", "B"}

BaseMenu ==
    { ast_Name("A"), ast_Name("B"), ast_Name("Ext"), ast_Attribute(ast_Name("m"), "B") }

Self == ast_arg("self", NoNode)
\* a parameter list of positional parameters only
Positional(args) == ast_arguments(<<>>, args, NoNode, <<>>, NoNode)
OptionalOf(slice) == ast_Subscript(ast_Name("Optional"), slice)
ListOf(slice) == ast_Subscript(ast_Name("List"), slice)

StmtMenu ==
    { ast_AnnAssign(ast_Name("x"), ast_Name("B"), NoNode),
      ast_AnnAssign(ast_Name("x"), OptionalOf(ast_Name("B")), NoNode),
      ast_AnnAssign(ast_Name("x"), ListOf(ast_Name("B")), NoNode),
      ast_AnnAssign(ast_Name("x"), ast_Name("Ext"), NoNode),
      ast_FunctionDef("f", Positional(<<Self, ast_arg("p", ast_Name("B"))>>), NoNode, <<>>, <<>>),
      ast_FunctionDef("f", Positional(<<Self, ast_arg("p", ast_Name("A"))>>), NoNode, <<>>, <<>>),
      ast_FunctionDef("f", Positional(<<Self>>), ast_Name("B"), <<>>, <<>>),
      ast_FunctionDef("f", Positional(<<Self, ast_arg("cls", ast_Name("B"))>>), NoNode, <<>>, <<>>),
      ast_FunctionDef("f", Positional(<<ast_arg("p", ast_Name("B"))>>), NoNode,
          <<ast_Name("staticmethod")>>, <<>>),
      ast_Assign(<<ast_Name("n")>>, ast_Constant([type |-> "int", s |-> "0"])),
      ast_FunctionDef("__init__", Positional(<<Self>>), NoNode, <<>>,
          <<ast_AnnAssign(ast_Attribute(ast_Name("self"), "y"), ast_Name("B"), NoNode)>>) }

\* the size of a unit: one for each class, base entry and body statement
RECURSIVE Size(_)
Size(tree) ==
    IF tree = <<>> THEN 0
    ELSE 1 + Len(Head(tree).bases) + Len(Head(tree).body) + Size(Tail(tree))

TypesIdle ==
    /\ ann = NoNode
    /\ resolved = NoResult
    /\ tpc = "parsed"
    /\ base_type_name = NONE

Init ==
    /\ source = <<>>
    /\ syntax_error = NoSyntaxError
    /\ source_name = "<string>"
    /\ pc = "write"
    /\ classes = <<>>
    /\ relationships = <<>>
    /\ k = 0
    /\ passes = <<>>
    /\ package = NoResult
    /\ calls = 0
    /\ previous = NoResult
    /\ set_orders = NoOrders
    /\ TypesIdle
    /\ FolderIdle
    /\ ThreadsIdle
    /\ MemberIdle
    /\ ClassIdle
    /\ CallsIdle

\* the unit's text grows by the header of one more class
WriteClass ==
    /\ pc = "write"
    /\ Size(source) < MaxSize
    /\ \E name \in ClassNames : source' = Append(source, ast_ClassDef(name, <<>>, <<>>))
    /\ UNCHANGED <<syntax_error, source_name, callVars, nonUnitVars>>

\* the unit's text grows by one base entry of the class being written
WriteBase ==
    /\ pc = "write"
    /\ Size(source) < MaxSize
    /\ source # <<>>
    /\ source[Len(source)].body = <<>>
    /\ \E base \in BaseMenu :
          source' = [source EXCEPT ![Len(source)].bases = Append(@, base)]
    /\ UNCHANGED <<syntax_error, source_name, callVars, nonUnitVars>>

\* the unit's text grows by one statement in the body of the class being written
WriteStatement ==
    /\ pc = "write"
    /\ Size(source) < MaxSize
    /\ source # <<>>
    /\ \E item \in StmtMenu :
          source' = [source EXCEPT ![Len(source)].body = Append(@, item)]
    /\ UNCHANGED <<syntax_error, source_name, callVars, nonUnitVars>>

\* a text ast.parse rejects: str(e) of the SyntaxError is "<msg> (<filename>, line <lineno>)"
ast_SyntaxError(msg, lineno) == [exception |-> "SyntaxError", msg |-> msg, lineno |-> lineno]
SyntaxErrorStr(e, filename) ==
    e.msg \o " (" \o filename \o ", line " \o ToString(e.lineno) \o ")"

\* the files of the folder of SpecFolder, by position in the sorted listing
FolderPath == "proj"
FileNames == <<"a.py", "b.py", "c.py", "d.py">>
FileStems == <<"a", "b", "c", "d">>

\* Path(source_name).stem of the paths of the model
PathStem(path) ==
    LET i == CHOOSE j \in DOMAIN FileNames : path = FolderPath \o "/" \o FileNames[j]
    IN  FileStems[i]

\* the ValueError parse_source raises for a SyntaxError e of ast.parse
SyntaxValueError_unnamed(name, e) ==
    [exception |-> "ValueError", message |-> "Syntax error: " \o e.msg]

SyntaxValueError(name, e) ==
    [exception |-> "ValueError",
     message |-> "Syntax error in " \o name \o ": " \o SyntaxErrorStr(e, name)]

\* parse_source on a text ast.parse rejects: the ValueError leaves the call
RaiseSyntaxError ==
    /\ pc = "write"
    /\ syntax_error # NoSyntaxError
    /\ calls' = calls + 1
    /\ package' = SyntaxValueError(source_name, syntax_error)
    /\ pc' = "raised"
    /\ UNCHANGED <<textVars, classes, relationships, k, passes, previous,
                   set_orders, nonUnitVars>>

\* parse_source begins, on the text written or once more on the text of the call
\* that has returned, in the process of that call or in a new process (whose hash
\* seed is its own): the loop that fills self.classes, and the empty list with
\* which _infer_relationships starts
ExtractClasses ==
    /\ \/ pc = "write"
       \/ pc = "done" /\ previous = NoResult /\ fpc = "idle"
    /\ syntax_error = NoSyntaxError
    /\ previous' = package
    /\ calls' = calls + 1
    /\ classes' = [i \in DOMAIN source |->
                      _extract_class(source[i], ToString(calls') \o ".c" \o ToString(i))]
    /\ relationships' = <<>>
    /\ k' = 0
    /\ passes' = <<>>
    /\ package' = NoResult
    /\ pc' = "infer"
    /\ set_orders' \in IF fpc = "idle" THEN {set_orders, NoOrders} ELSE {set_orders}
    /\ UNCHANGED <<textVars, nonUnitVars>>

\* InferClass that extends the list with the attribute pass before the inheritance pass
InferClass_attributes_first ==
    /\ pc = "infer"
    /\ k < Len(classes)
    /\ LET cls == classes[k + 1]
           class_map == ClassMapOf(classes)
           class_names == DOMAIN class_map
           adds == DependencyAdds(cls, class_names)
       IN  \E order \in ProcessOrders(set_orders, adds) :
              LET inh == _infer_inheritance(cls, class_names, class_map)
                  comp == _infer_composition_aggregation(cls, class_names, class_map)
                  dep == _infer_dependencies(cls, class_map, order)
              IN  /\ relationships' = relationships \o comp \o inh \o dep
                  /\ passes' = Append(passes, [inh |-> inh, comp |-> comp, dep |-> dep])
                  /\ set_orders' = Iterated(set_orders, adds, order)
    /\ k' = k + 1
    /\ UNCHANGED <<textVars, pc, classes, package, calls, previous, nonUnitVars>>

\* _infer_relationships: one iteration of the loop over self.classes
InferClass ==
    /\ pc = "infer"
    /\ k < Len(classes)
    /\ LET cls == classes[k + 1]
           class_map == ClassMapOf(classes)
           class_names == DOMAIN class_map
           adds == DependencyAdds(cls, class_names)
       IN  \E order \in ProcessOrders(set_orders, adds) :
              LET inh == _infer_inheritance(cls, class_names, class_map)
                  comp == _infer_composition_aggregation(cls, class_names, class_map)
                  dep == _infer_dependencies(cls, class_map, order)
              IN  /\ relationships' = relationships \o inh \o comp \o dep
                  /\ passes' = Append(passes, [inh |-> inh, comp |-> comp, dep |-> dep])
                  /\ set_orders' = Iterated(set_orders, adds, order)
    /\ k' = k + 1
    /\ UNCHANGED <<textVars, pc, classes, package, calls, previous, nonUnitVars>>

\* parse_source: the Package built once _infer_relationships has returned
ReturnPackage ==
    /\ pc = "infer"
    /\ k = Len(classes)
    /\ package' = Package(IF source_name # "<string>" THEN PathStem(source_name) ELSE "parsed",
                           uuid4(ToString(calls) \o ".p"), classes, relationships)
    /\ pc' = "done"
    /\ UNCHANGED <<textVars, classes, relationships, k, passes, calls, previous,
                 set_orders, nonUnitVars>>

Next ==
    \/ WriteClass \/ WriteBase \/ WriteStatement
    \/ ExtractClasses \/ InferClass \/ ReturnPackage

Spec == Init /\ [][Next]_vars

(***************************************************************************)
(* metamodel: Project, and to_dict / from_dict.  A dict is a record; a     *)
(* UUID is represented by its canonical text, which str() writes and       *)
(* UUID() reads; an enum member by its value.  PyNone is a None entry.     *)
(***************************************************************************)
PyNone == [none |-> "NoneType"]

Project(name, id, version, packages, metadata) ==
    [name |-> name, id |-> id, version |-> version, packages |-> packages,
     metadata |-> metadata]

RECURSIVE TypeReference_to_dict(_)
TypeReference_to_dict(self) ==
    [name |-> self.name, module |-> self.module,
     type_arguments |-> [i \in DOMAIN self.type_arguments |->
                            TypeReference_to_dict(self.type_arguments[i])],
     is_optional |-> self.is_optional]

RECURSIVE TypeReference_from_dict(_)
TypeReference_from_dict(data) ==
    TypeReference(data.name, data.module,
                  [i \in DOMAIN data.type_arguments |->
                      TypeReference_from_dict(data.type_arguments[i])],
                  data.is_optional)

Parameter_to_dict(self) ==
    [name |-> self.name,
     type |-> IF self.type # NoType THEN TypeReference_to_dict(self.type) ELSE PyNone]

Parameter_from_dict(data) ==
    Parameter(data.name,
              IF data.type # PyNone THEN TypeReference_from_dict(data.type) ELSE NoType)

Attribute_to_dict(self) ==
    [id |-> self.id, name |-> self.name, type |-> TypeReference_to_dict(self.type),
     visibility |-> self.visibility, default_value |-> self.default_value,
     is_static |-> self.is_static]

Attribute_from_dict(data) ==
    Attribute(data.name, TypeReference_from_dict(data.type), data.id, data.visibility,
              data.default_value, data.is_static)

Method_to_dict(self) ==
    [id |-> self.id, name |-> self.name,
     parameters |-> [i \in DOMAIN self.parameters |-> Parameter_to_dict(self.parameters[i])],
     return_type |-> IF self.return_type # NoType
                     THEN TypeReference_to_dict(self.return_type) ELSE PyNone,
     visibility |-> self.visibility, is_static |-> self.is_static,
     is_class_method |-> self.is_class_method, is_abstract |-> self.is_abstract]

Method_from_dict(data) ==
    Method(data.name, data.id,
           [i \in DOMAIN data.parameters |-> Parameter_from_dict(data.parameters[i])],
           IF data.return_type # PyNone THEN TypeReference_from_dict(data.return_type)
           ELSE NoType,
           data.visibility, data.is_static, data.is_class_method, data.is_abstract)

Class_to_dict(self) ==
    [id |-> self.id, name |-> self.name,
     attributes |-> [i \in DOMAIN self.attributes |-> Attribute_to_dict(self.attributes[i])],
     methods |-> [i \in DOMAIN self.methods |-> Method_to_dict(self.methods[i])],
     base_classes |-> self.base_classes, is_abstract |-> self.is_abstract,
     metadata |-> self.metadata]

\* cls(id=UUID(data["id"]), ...): the constructor runs __post_init__, which assigns
\* the id anew from the name and the metadata
Class_from_dict(data) ==
    Class(data.name, data.base_classes,
          [i \in DOMAIN data.attributes |-> Attribute_from_dict(data.attributes[i])],
          [i \in DOMAIN data.methods |-> Method_from_dict(data.methods[i])],
          data.is_abstract, data.metadata)

Relationship_to_dict(self) ==
    [type |-> self.type, source_id |-> self.source_id, target_id |-> self.target_id,
     source_role |-> self.source_role, target_role |-> self.target_role]

Relationship_from_dict(data) ==
    Relationship(data.type, data.source_id, data.target_id, data.source_role,
                 data.target_role)

Package_to_dict(self) ==
    [id |-> self.id, name |-> self.name,
     classes |-> [i \in DOMAIN self.classes |-> Class_to_dict(self.classes[i])],
     relationships |-> [i \in DOMAIN self.relationships |->
                           Relationship_to_dict(self.relationships[i])]]

Package_from_dict(data) ==
    Package(data.name, data.id,
            [i \in DOMAIN data.classes |-> Class_from_dict(data.classes[i])],
            [i \in DOMAIN data.relationships |->
                Relationship_from_dict(data.relationships[i])])

Project_to_dict(self) ==
    [id |-> self.id, name |-> self.name, version |-> self.version,
     packages |-> [i \in DOMAIN self.packages |-> Package_to_dict(self.packages[i])],
     metadata |-> self.metadata]

Project_from_dict(data) ==
    Project(data.name, data.id, data.version,
            [i \in DOMAIN data.packages |-> Package_from_dict(data.packages[i])],
            data.metadata)

(***************************************************************************)
(* SpecFolder: parse_folder_to_project on a folder whose .py files lie in  *)
(* its root directory, so that they form one package.  Each file is        *)
(* parsed by the parse_source actions above, on one parser.                *)
(***************************************************************************)
\* number of .py files of the folder
MaxFiles == 2

File(tree, error) == [tree |-> tree, error |-> error]

FileMenu ==
    { File(<<ast_ClassDef("A", <<>>, <<>>)>>, NoSyntaxError),
      File(<<ast_ClassDef("A", <<>>, <<>>), ast_ClassDef("B", <<ast_Name("A")>>, <<>>)>>,
           NoSyntaxError),
      File(<<ast_ClassDef("A", <<>>,
               <<ast_Assign(<<ast_Name("n")>>, ast_Constant([type |-> "int", s |-> "0"]))>>)>>,
           NoSyntaxError),
      File(<<>>, NoSyntaxError),
      File(<<>>, ast_SyntaxError("invalid syntax", 1)) }

\* str(py_file) and str(relative_path) of the file at a position of the listing
AbsolutePath(i) == FolderPath \o "/" \o FileNames[i]
RelativePath(i) == FileNames[i]

\* metadata[key] = value
DictSet(metadata, key, value) ==
    [key2 \in DOMAIN metadata \cup {key} |-> IF key2 = key THEN value ELSE metadata[key2]]

\* the names bound in python_parser.py: its imports and definitions, and the builtins
module_globals ==
    {"ast", "Path", "Any", "Project", "Package", "Class", "Attribute", "Method", "Parameter",
     "TypeReference", "Visibility", "Relationship", "RelationshipType", "Decorator",
     "PythonParser", "parse_file_to_project", "parse_folder_to_project"}
builtin_names == {"print", "sorted", "any", "str", "len", "Exception", "ValueError"}

\* the global names the except clause of the loop reads
HandlerNames == <<"print", "sys">>

\* the NameError of the first name of a sequence that is not bound, NoResult if all are
LoadNames(names) ==
    LET unbound == SelectSeq(names, LAMBDA name : name \notin module_globals \cup builtin_names)
    IN  IF unbound = <<>> THEN NoResult
        ELSE [exception |-> "NameError",
              message |-> "name '" \o unbound[1] \o "' is not defined"]

InitFolder ==
    /\ files = <<>>
    /\ fpc = "listing"
    /\ fi = 0
    /\ package_classes = <<>>
    /\ package_relationships = <<>>
    /\ project = NoResult
    /\ loaded = NoResult
    /\ UnitIdle
    /\ TypesIdle
    /\ ThreadsIdle
    /\ MemberIdle
    /\ ClassIdle
    /\ CallsIdle

\* the folder holds one more .py file
AddFile ==
    /\ fpc = "listing"
    /\ Len(files) < MaxFiles
    /\ \E file \in FileMenu : files' = Append(files, file)
    /\ UNCHANGED <<fpc, fi, package_classes, package_relationships, project, loaded,
                   unitVars, typeVars, threadVars, memberVars, classVars, returned>>

\* parse_folder_to_project begins: the listing, the grouping, the parser
ListFiles ==
    /\ fpc = "listing"
    /\ IF files = <<>>
       THEN /\ project' = [exception |-> "ValueError",
                           message |-> "No Python files found in: " \o FolderPath]
            /\ fpc' = "raised"
       ELSE /\ project' = project
            /\ fpc' = "loop"
    /\ UNCHANGED <<files, fi, package_classes, package_relationships, loaded,
                   unitVars, typeVars, threadVars, memberVars, classVars, returned>>

\* the loop over the files: parser.parse_file(str(py_file)) is called
ParseFile ==
    /\ fpc = "loop"
    /\ fi < Len(files)
    /\ source' = files[fi + 1].tree
    /\ syntax_error' = files[fi + 1].error
    /\ source_name' = AbsolutePath(fi + 1)
    /\ pc' = "write"
    /\ fpc' = "parsing"
    /\ UNCHANGED <<classes, relationships, k, passes, package, calls, previous, set_orders,
                   files, fi, package_classes, package_relationships, project, loaded,
                   typeVars, threadVars, memberVars, classVars, returned>>

\* the loop over the files: parse_file has returned file_package
TakePackage ==
    /\ fpc = "parsing"
    /\ pc = "done"
    /\ LET file_package == package
           marked == [i \in DOMAIN file_package.classes |->
                         [file_package.classes[i] EXCEPT !.metadata =
                             DictSet(DictSet(@, "source_file", RelativePath(fi + 1)),
                                     "source_file_absolute", AbsolutePath(fi + 1))]]
       IN  /\ package_classes' = package_classes \o marked
           /\ package_relationships' = package_relationships \o file_package.relationships
    /\ fi' = fi + 1
    /\ fpc' = "loop"
    /\ UNCHANGED <<files, project, loaded, unitVars, typeVars, threadVars, memberVars, classVars, returned>>

\* the loop over the files: parse_file has raised, the except clause runs
SkipFile ==
    /\ fpc = "parsing"
    /\ pc = "raised"
    /\ LET raised == LoadNames(HandlerNames)
       IN  IF raised = NoResult
           THEN /\ fi' = fi + 1
                /\ fpc' = "loop"
                /\ project' = project
           ELSE /\ fi' = fi
                /\ fpc' = "raised"
                /\ project' = raised
    /\ UNCHANGED <<files, package_classes, package_relationships, loaded,
                   unitVars, typeVars, threadVars, memberVars, classVars, returned>>

\* the loop has ended: the package of the directory and the Project
ReturnProject ==
    /\ fpc = "loop"
    /\ fi = Len(files)
    /\ IF package_classes # <<>>
       THEN /\ project' = Project(FolderPath, uuid4("project"), "1.0.0",
                                  <<Package(FolderPath, uuid4("package"), package_classes,
                                            package_relationships)>>,
                                  EmptyDict)
            /\ fpc' = "returned"
       ELSE /\ project' = [exception |-> "ValueError",
                           message |-> "No classes found in Python files in: " \o FolderPath]
            /\ fpc' = "raised"
    /\ UNCHANGED <<files, fi, package_classes, package_relationships, loaded,
                   unitVars, typeVars, threadVars, memberVars, classVars, returned>>

\* the Project is written with to_dict and read back with from_dict
LoadProject ==
    /\ fpc = "returned"
    /\ loaded' = Project_from_dict(Project_to_dict(project))
    /\ fpc' = "loaded"
    /\ UNCHANGED <<files, fi, package_classes, package_relationships, project,
                   unitVars, typeVars, threadVars, memberVars, classVars, returned>>

NextFolder ==
    \/ AddFile \/ ListFiles \/ ParseFile
    \/ ExtractClasses \/ RaiseSyntaxError \/ InferClass \/ ReturnPackage
    \/ TakePackage \/ SkipFile \/ ReturnProject \/ LoadProject

SpecFolder == InitFolder /\ [][NextFolder]_vars

(***************************************************************************)
(* SpecParallel: two threads call parse_source of one PythonParser, each   *)
(* on its own text.  self.classes is an attribute of the parser; the list  *)
(* objects it is bound to live in lists, by the thread that created them   *)
(* (0: the list of __init__).  A step is one access to self.classes.       *)
(***************************************************************************)
Threads == {1, 2}

\* the PythonParser objects the calls are made on
Parsers == {1, 2}

\* the texts the threads parse
ThreadTexts ==
    { <<ast_ClassDef("A", <<>>, <<>>)>>,
      <<ast_ClassDef("A", <<>>, <<>>), ast_ClassDef("B", <<ast_Name("A")>>, <<>>)>>,
      <<ast_ClassDef("B", <<>>, <<ast_AnnAssign(ast_Name("x"), ast_Name("A"), NoNode)>>),
        ast_ClassDef("A", <<>>, <<>>)>> }

\* the random bits the uuid4 calls of a thread's call read, for the i-th class
ThreadBits(t, i) == "t" \o ToString(t) \o ".c" \o ToString(i)

\* a call parser.parse_source(text) about to start: self is the PythonParser it is called on
Thread(self, tree) ==
    [pc |-> "called", self |-> self, tree |-> tree, n |-> 0, class_map |-> EmptyDict,
     list |-> 0, i |-> 0, relationships |-> <<>>, package |-> NoResult]

InitParallel ==
    /\ \E text1, text2 \in ThreadTexts :
          /\ text1 # text2
          /\ \E parser2 \in Parsers :
                threads = [t \in Threads |-> IF t = 1 THEN Thread(1, text1)
                                                      ELSE Thread(parser2, text2)]
    /\ lists = [l \in {0} \cup Threads |-> <<>>]
    /\ self_classes = [parser \in Parsers |-> 0]
    /\ UnitIdle
    /\ TypesIdle
    /\ FolderIdle
    /\ MemberIdle
    /\ ClassIdle
    /\ CallsIdle

\* self.classes = []
ResetClasses(t) ==
    /\ threads[t].pc = "called"
    /\ lists' = [lists EXCEPT ![t] = <<>>]
    /\ self_classes' = [self_classes EXCEPT ![threads[t].self] = t]
    /\ threads' = [threads EXCEPT ![t].pc = "walk"]
    /\ UNCHANGED nonThreadVars

\* one iteration of the loop over ast.walk(tree): self.classes.append(cls)
AppendClass(t) ==
    /\ threads[t].pc = "walk"
    /\ threads[t].n < Len(threads[t].tree)
    /\ LET n == threads[t].n + 1
           cls == _extract_class(threads[t].tree[n], ThreadBits(t, n))
       IN  /\ lists' = [lists EXCEPT ![self_classes[threads[t].self]] = Append(@, cls)]
           /\ threads' = [threads EXCEPT ![t].n = n]
    /\ UNCHANGED <<self_classes, nonThreadVars>>

\* _infer_relationships: class_map = {cls.name: cls.id for cls in self.classes}
BuildClassMap(t) ==
    /\ threads[t].pc = "walk"
    /\ threads[t].n = Len(threads[t].tree)
    /\ threads' = [threads EXCEPT ![t].class_map = ClassMapOf(lists[self_classes[threads[t].self]]),
                                  ![t].pc = "map"]
    /\ UNCHANGED <<lists, self_classes, nonThreadVars>>

\* _infer_relationships: for cls in self.classes takes the iterator of the list
StartLoop(t) ==
    /\ threads[t].pc = "map"
    /\ threads' = [threads EXCEPT ![t].list = self_classes[threads[t].self], ![t].pc = "loop"]
    /\ UNCHANGED <<lists, self_classes, nonThreadVars>>

\* the relationship lists the three passes can return for one class, one after the other
ClassRelationships(cls, class_names, class_map) ==
    { _infer_inheritance(cls, class_names, class_map)
      \o _infer_composition_aggregation(cls, class_names, class_map)
      \o _infer_dependencies(cls, class_map, order) :
          order \in IterationOrders(Dependencies(cls, class_names)) }

\* the relationship lists _infer_relationships can return for the first upto of the classes cs
RECURSIVE InferredRelationships(_, _)
InferredRelationships(cs, upto) ==
    IF upto = 0 THEN { <<>> }
    ELSE { before \o found :
              before \in InferredRelationships(cs, upto - 1),
              found \in ClassRelationships(cs[upto], ClassNamesOf(cs), ClassMapOf(cs)) }

\* _infer_relationships: one iteration of the loop, on the next class of the list
\* the iterator walks
InferNext(t) ==
    /\ threads[t].pc = "loop"
    /\ threads[t].i < Len(lists[threads[t].list])
    /\ LET cls == lists[threads[t].list][threads[t].i + 1]
           class_map == threads[t].class_map
       IN  \E found \in ClassRelationships(cls, DOMAIN class_map, class_map) :
              threads' = [threads EXCEPT ![t].relationships = @ \o found,
                                         ![t].i = @ + 1]
    /\ UNCHANGED <<lists, self_classes, nonThreadVars>>

\* the iterator is exhausted; Package(classes=self.classes, ...) is returned
ReturnThreadPackage(t) ==
    /\ threads[t].pc = "loop"
    /\ threads[t].i >= Len(lists[threads[t].list])
    /\ threads' = [threads EXCEPT
                      ![t].package = Package("parsed", uuid4("t" \o ToString(t) \o ".p"),
                                             self_classes[threads[t].self],
                                             threads[t].relationships),
                      ![t].pc = "done"]
    /\ UNCHANGED <<lists, self_classes, nonThreadVars>>

NextParallel ==
    \E t \in Threads :
        \/ ResetClasses(t) \/ AppendClass(t) \/ BuildClassMap(t) \/ StartLoop(t)
        \/ InferNext(t) \/ ReturnThreadPackage(t)

SpecParallel == InitParallel /\ [][NextParallel]_vars

(***************************************************************************)
(* SpecCalls: parse_source is called again and again on one PythonParser,  *)
(* one call after the other, on texts that parse and texts that do not.    *)
(* As in SpecParallel, a Package holds the list object self.classes was    *)
(* bound to when the call returned, and lists holds the list objects.      *)
(***************************************************************************)
\* number of parse_source calls on the parser
MaxCalls == 3

\* the list object that "self.classes = []" of the n-th call binds: a new one
NewClassesList_cleared(n) == self_classes[1]

NewClassesList(n) == n

\* the random bits the uuid4 calls of the n-th call read, for its i-th class
CallBits(n, i) == "k" \o ToString(n) \o ".c" \o ToString(i)

\* the classes _extract_class returns for the text of the n-th call
ExtractedClasses(tree, n) == [i \in DOMAIN tree |-> _extract_class(tree[i], CallBits(n, i))]

InitCalls ==
    /\ returned = <<>>
    /\ lists = [l \in {0} |-> <<>>]
    /\ self_classes = [parser \in {1} |-> 0]
    /\ threads = <<>>
    /\ UnitIdle
    /\ TypesIdle
    /\ FolderIdle
    /\ MemberIdle
    /\ ClassIdle

\* parse_source(text) on a text ast.parse rejects: the ValueError leaves the call,
\* self.classes is what it was
CallRaises ==
    /\ Len(returned) < MaxCalls
    /\ \E file \in FileMenu :
          /\ file.error # NoSyntaxError
          /\ returned' = Append(returned,
                                [text |-> file,
                                 result |-> SyntaxValueError("<string>", file.error)])
    /\ UNCHANGED <<lists, self_classes, threads, nonCallsVars>>

\* parse_source(text) on a text that parses: self.classes is bound to a new list, the
\* classes are appended to it, and the Package returned holds that list
CallReturns ==
    /\ Len(returned) < MaxCalls
    /\ \E file \in FileMenu :
          /\ file.error = NoSyntaxError
          /\ LET n == Len(returned) + 1
                 list == NewClassesList(n)
                 cs == ExtractedClasses(file.tree, n)
             IN  /\ lists' = [l \in DOMAIN lists \cup {list} |-> IF l = list THEN cs ELSE lists[l]]
                 /\ self_classes' = [self_classes EXCEPT ![1] = list]
                 /\ \E found \in InferredRelationships(cs, Len(cs)) :
                       returned' = Append(returned,
                           [text |-> file,
                            result |-> Package("parsed", uuid4("k" \o ToString(n) \o ".p"),
                                               list, found)])
    /\ UNCHANGED <<threads, nonCallsVars>>

NextCalls ==
    \/ CallRaises
    \/ CallReturns

SpecCalls == InitCalls /\ [][NextCalls]_vars

(***************************************************************************)
(* SpecMember: one declaration of a class body is written and extracted.   *)
(* A method declaration starts as "def name(): ..." and grows by one       *)
(* decorator or one parameter per step; an attribute declaration is an     *)
(* annotated assignment to a name (class body) or to self.name (__init__). *)
(***************************************************************************)
\* decorators a method declaration has at most
MaxDecorators == 2
\* parameters a method declaration has at most, besides *args and **kwargs
MaxArgs == 2

\* names of the method declarations, all of them in NameParts
MethodNames == {"f", "_f", "__f", "__f_", "__f__", "__init__"}

\* names of the attribute declarations: the identifiers in NameParts
AttributeNames == NameParts \ {""}

DecoratorMenu ==
    { ast_Name("staticmethod"), ast_Name("classmethod"), ast_Name("abstractmethod"),
      ast_Name("property"),
      ast_Attribute(ast_Name("builtins"), "staticmethod"),
      ast_Attribute(ast_Name("builtins"), "classmethod"),
      ast_Attribute(ast_Name("abc"), "abstractmethod") }

\* the n-th parameter written into a declaration
ArgMenu ==
    << ast_arg("self", NoNode), ast_arg("a", ast_Name("A")), ast_arg("b", NoNode),
       ast_arg("c", ast_Name("int")) >>

\* the lists of ast.arguments a parameter can be written into: before "/", after it,
\* after "*"
ArgLists == {"posonlyargs", "args", "kwonlyargs"}

ListedArgs(arguments) ==
    Len(arguments.posonlyargs) + Len(arguments.args) + Len(arguments.kwonlyargs)

InitMember ==
    /\ decl \in { ast_FunctionDef(name, Positional(<<>>), NoNode, <<>>, <<>>) :
                     name \in MethodNames }
          \cup { ast_AnnAssign(ast_Name(name), ast_Name("int"), NoNode) :
                     name \in AttributeNames }
          \cup { ast_AnnAssign(ast_Attribute(ast_Name("self"), name), ast_Name("int"), NoNode) :
                     name \in AttributeNames }
    /\ member = NoResult
    /\ mpc = "write"
    /\ TypesIdle
    /\ UnitIdle
    /\ FolderIdle
    /\ ThreadsIdle
    /\ ClassIdle
    /\ CallsIdle

\* one more decorator line above the def
AddDecorator ==
    /\ mpc = "write"
    /\ decl.kind = "FunctionDef"
    /\ Len(decl.decorator_list) < MaxDecorators
    /\ \E decorator \in DecoratorMenu :
          decl' = [decl EXCEPT !.decorator_list = Append(@, decorator)]
    /\ UNCHANGED <<member, mpc, nonMemberVars>>

\* one more parameter, at the end of one of the three lists
AddArg ==
    /\ mpc = "write"
    /\ decl.kind = "FunctionDef"
    /\ ListedArgs(decl.args) < MaxArgs
    /\ \E list \in ArgLists :
          decl' = [decl EXCEPT !.args[list] = Append(@, ArgMenu[ListedArgs(decl.args) + 1])]
    /\ UNCHANGED <<member, mpc, nonMemberVars>>

\* *args
AddVararg ==
    /\ mpc = "write"
    /\ decl.kind = "FunctionDef"
    /\ decl.args.vararg = NoNode
    /\ decl' = [decl EXCEPT !.args.vararg = ast_arg("args", NoNode)]
    /\ UNCHANGED <<member, mpc, nonMemberVars>>

\* **kwargs
AddKwarg ==
    /\ mpc = "write"
    /\ decl.kind = "FunctionDef"
    /\ decl.args.kwarg = NoNode
    /\ decl' = [decl EXCEPT !.args.kwarg = ast_arg("kwargs", NoNode)]
    /\ UNCHANGED <<member, mpc, nonMemberVars>>

\* _extract_class: method = self._extract_method(item)
ExtractMethod ==
    /\ mpc = "write"
    /\ decl.kind = "FunctionDef"
    /\ member' = _extract_method(decl, "m")
    /\ mpc' = "extracted"
    /\ UNCHANGED <<decl, nonMemberVars>>

\* _extract_class_attributes on a class-body statement, _extract_init_attributes on a
\* statement of __init__
ExtractAttribute ==
    /\ mpc = "write"
    /\ decl.kind = "AnnAssign"
    /\ member' = Head(IF decl.target.kind = "Name" THEN ClassBodyAttributes(decl, "m")
                      ELSE InitBodyAttributes(decl, "m"))
    /\ mpc' = "extracted"
    /\ UNCHANGED <<decl, nonMemberVars>>

NextMember ==
    \/ AddDecorator
    \/ AddArg
    \/ AddVararg
    \/ AddKwarg
    \/ ExtractMethod
    \/ ExtractAttribute

SpecMember == InitMember /\ [][NextMember]_vars

(***************************************************************************)
(* SpecClass: one class declaration is written, base entry by base entry   *)
(* and then statement by statement, and given to _extract_class.           *)
(***************************************************************************)
\* base entries and body statements a class declaration has at most, together
MaxClassSize == 2

ast_AsyncFunctionDef(name, args, returns, decorator_list, body) ==
    [kind |-> "AsyncFunctionDef", name |-> name, args |-> args, returns |-> returns,
     decorator_list |-> decorator_list, body |-> body]
ast_If(test, body) == [kind |-> "If", test |-> test, body |-> body]

IntLiteral(s) == ast_Constant([type |-> "int", s |-> s])

ClassBaseMenu ==
    { ast_Name("ABC"), ast_Name("ABCMeta"), ast_Name("MyABC"), ast_Name("Foo"),
      ast_Attribute(ast_Name("abc"), "ABC"), ast_Attribute(ast_Name("abc"), "ABCMeta"),
      ast_Attribute(ast_Name("m"), "ABCD"), ast_Attribute(ast_Name("ABCs"), "Foo"),
      ast_Attribute(ast_Name("m"), "Foo"), ast_Attribute(ast_Name("m"), "MyABC"),
      ast_Subscript(ast_Name("Generic"), ast_Name("T")) }

\* self.name, on a receiver of the given name
ReceiverAttribute(receiver, name) == ast_Attribute(ast_Name(receiver), name)

ClassBodyMenu ==
    { \* def f(self): pass
      ast_FunctionDef("f", Positional(<<Self>>), NoNode, <<>>, <<>>),
      \* def f2(self): with a def g() inside
      ast_FunctionDef("f2", Positional(<<Self>>), NoNode, <<>>,
          <<ast_FunctionDef("g", Positional(<<>>), NoNode, <<>>, <<>>)>>),
      \* async def h(self): pass
      ast_AsyncFunctionDef("h", Positional(<<Self>>), NoNode, <<>>, <<>>),
      \* n = 0, l = [], d = {}, s = {1}, t = (), v = g()
      ast_Assign(<<ast_Name("n")>>, IntLiteral("0")),
      ast_Assign(<<ast_Name("l")>>, ast_expr("List", "[]")),
      ast_Assign(<<ast_Name("d")>>, ast_expr("Dict", "{}")),
      ast_Assign(<<ast_Name("s")>>, ast_expr("Set", "{1}")),
      ast_Assign(<<ast_Name("t")>>, ast_Tuple(<<>>)),
      ast_Assign(<<ast_Name("v")>>, ast_expr("Call", "g()")),
      \* a, b = 1, 2
      ast_Assign(<<ast_Tuple(<<ast_Name("a"), ast_Name("b")>>)>>,
                 ast_Tuple(<<IntLiteral("1"), IntLiteral("2")>>)),
      \* p = q = 0
      ast_Assign(<<ast_Name("p"), ast_Name("q")>>, IntLiteral("0")),
      \* x: int
      ast_AnnAssign(ast_Name("x"), ast_Name("int"), NoNode),
      \* def __init__(self): self.y: int = 0
      ast_FunctionDef("__init__", Positional(<<Self>>), NoNode, <<>>,
          <<ast_AnnAssign(ReceiverAttribute("self", "y"), ast_Name("int"), IntLiteral("0"))>>),
      \* def __init__(this): this.y = 0
      ast_FunctionDef("__init__", Positional(<<ast_arg("this", NoNode)>>), NoNode, <<>>,
          <<ast_Assign(<<ReceiverAttribute("this", "y")>>, IntLiteral("0"))>>),
      \* def __init__(self, c): if c: self.w = 0
      ast_FunctionDef("__init__", Positional(<<Self, ast_arg("c", NoNode)>>), NoNode, <<>>,
          <<ast_If(ast_Name("c"),
                   <<ast_Assign(<<ReceiverAttribute("self", "w")>>, IntLiteral("0"))>>)>>),
      \* def g(self): self.u = 0
      ast_FunctionDef("g", Positional(<<Self>>), NoNode, <<>>,
          <<ast_Assign(<<ReceiverAttribute("self", "u")>>, IntLiteral("0"))>>) }

InitClass ==
    /\ classdef = ast_ClassDef("A", <<>>, <<>>)
    /\ extracted = NoResult
    /\ cpc = "write"
    /\ TypesIdle
    /\ UnitIdle
    /\ FolderIdle
    /\ ThreadsIdle
    /\ MemberIdle
    /\ CallsIdle

\* one more entry in the base list
AddBase ==
    /\ cpc = "write"
    /\ classdef.body = <<>>
    /\ Len(classdef.bases) < MaxClassSize
    /\ \E base \in ClassBaseMenu : classdef' = [classdef EXCEPT !.bases = Append(@, base)]
    /\ UNCHANGED <<extracted, cpc, nonClassVars>>

\* one more statement in the class body
AddStatement ==
    /\ cpc = "write"
    /\ Len(classdef.bases) + Len(classdef.body) < MaxClassSize
    /\ \E item \in ClassBodyMenu : classdef' = [classdef EXCEPT !.body = Append(@, item)]
    /\ UNCHANGED <<extracted, cpc, nonClassVars>>

\* parse_source: cls = self._extract_class(node)
ExtractClass ==
    /\ cpc = "write"
    /\ extracted' = _extract_class(classdef, "c")
    /\ cpc' = "extracted"
    /\ UNCHANGED <<classdef, nonClassVars>>

NextClass ==
    \/ AddBase
    \/ AddStatement
    \/ ExtractClass

SpecClass == InitClass /\ [][NextClass]_vars

(***************************************************************************)
(* Properties of the relationship inference (Spec).                        *)
(***************************************************************************)
Ids(cs) == {cs[i].id : i \in DOMAIN cs}

Range(seq) == {seq[i] : i \in DOMAIN seq}

\* the classes of a unit that carry the name n
Named(cs, n) == {cs[i] : i \in {j \in DOMAIN cs : cs[j].name = n}}

\* the base type names of the attributes of a class
AttributeTypeNames(cls) ==
    {_get_base_type_name(cls.attributes[i].type) : i \in DOMAIN cls.attributes}

\* the base type names of the parameters and return types of the methods of a class
SignatureTypeNames(cls) ==
    UNION { {_get_base_type_name(cls.methods[i].parameters[j].type) :
                j \in {p \in DOMAIN cls.methods[i].parameters :
                          cls.methods[i].parameters[p].type # NoType}}
            \cup (IF cls.methods[i].return_type # NoType
                  THEN {_get_base_type_name(cls.methods[i].return_type)}
                  ELSE {}) : i \in DOMAIN cls.methods }

\* the names a class may be related to by a relationship of the given type
NamesBehind(cls, type) ==
    CASE type = "inheritance" -> Range(cls.base_classes)
      [] type \in {"composition", "aggregation"} -> AttributeTypeNames(cls)
      [] type = "dependency" -> SignatureTypeNames(cls)
      [] OTHER -> {}

\* C1: in the Package parse_source returns, every relationship's source_id and
\* target_id are ids of classes of that Package, and every relationship goes
\* back to a base name, attribute type or signature type of its source class
\* that is the name of a class of the unit: names of no class produce none.
C1_EndpointsInUnit ==
    pc = "done" =>
        \A i \in DOMAIN package.relationships :
            LET r == package.relationships[i]
            IN  /\ r.source_id \in Ids(package.classes)
                /\ r.target_id \in Ids(package.classes)
                /\ \E cls \in Range(package.classes) :
                      /\ cls.id = r.source_id
                      /\ \E n \in NamesBehind(cls, r.type) :
                            \E target \in Named(package.classes, n) :
                                target.id = r.target_id

\* a Package with relationships of a unit in which a class names a base or a
\* type that is no class of the unit
C1_Witness ==
    /\ pc = "done"
    /\ package.relationships # <<>>
    /\ \E cls \in Range(package.classes) :
          \/ \E n \in Range(cls.base_classes) : n \notin ClassNamesOf(package.classes)
          \/ \E n \in AttributeTypeNames(cls) : n \notin ClassNamesOf(package.classes)

\* the base names of a class that are names of classes of the unit, in order
InUnitBases(cls) ==
    SelectSeq(cls.base_classes, LAMBDA n : n \in ClassNamesOf(classes))

\* C2: for each class, the inheritance pass returns one relationship per entry
\* of its base names that is the name of a class of the unit, in order: type
\* inheritance, from the class to the base, roles derived and base; N in-unit
\* bases give N relationships.
C2_InheritancePerBase ==
    \A i \in DOMAIN passes :
        LET cls == classes[i]
            bases == InUnitBases(cls)
        IN  /\ Len(passes[i].inh) = Len(bases)
            /\ \A j \in DOMAIN bases :
                  LET r == passes[i].inh[j]
                  IN  /\ r.type = "inheritance"
                      /\ r.source_id = cls.id
                      /\ \E target \in Named(classes, bases[j]) : r.target_id = target.id
                      /\ r.source_role = "derived"
                      /\ r.target_role = "base"

\* a class with two in-unit bases that are different classes
C2_Witness ==
    \E i \in DOMAIN passes :
        /\ Len(InUnitBases(classes[i])) = 2
        /\ Len(passes[i].inh) = 2
        /\ passes[i].inh[1].target_id # passes[i].inh[2].target_id

\* C3: the relationship list of a unit holds at most one inheritance relationship
\* per ordered pair of class ids.
C3_NoDuplicateInheritance ==
    pc = "done" =>
        \A i, j \in DOMAIN package.relationships :
            LET r == package.relationships[i]
                q == package.relationships[j]
            IN  (/\ i # j
                 /\ r.type = "inheritance"
                 /\ q.type = "inheritance"
                 /\ r.source_id = q.source_id)
                => r.target_id # q.target_id

\* the attributes of a class whose base type name is the name of a class of the unit
MatchingAttributes(cls) ==
    SelectSeq(cls.attributes,
              LAMBDA attr : _get_base_type_name(attr.type) \in ClassNamesOf(classes))

\* the class declarations whose body is one annotated class-level attribute
SingleAttribute(node) ==
    /\ Len(node.body) = 1
    /\ node.body[1].kind = "AnnAssign"
    /\ node.body[1].target.kind = "Name"

C5_NoDependencyOnAttributeType ==
    \A i \in DOMAIN passes :
        \A n \in AttributeTypeNames(classes[i]) \cap ClassNamesOf(classes) :
            \A r \in Range(passes[i].dep) :
                \A target \in Named(classes, n) : r.target_id # target.id

\* a class with an attribute of a class of the unit and a method signature
\* that names the same class
C5_Witness ==
    \E i \in DOMAIN passes :
        \E n \in AttributeTypeNames(classes[i]) \cap SignatureTypeNames(classes[i]) :
            n \in ClassNamesOf(classes)

\* C6: for each class C and each class name N of the unit that a parameter or
\* return type of a method of C has as base type name and no attribute of C
\* has, the dependency pass returns exactly one dependency from C to N.
C6_OneDependencyPerName ==
    \A i \in DOMAIN passes :
        \A n \in (SignatureTypeNames(classes[i]) \cap ClassNamesOf(classes))
                 \ AttributeTypeNames(classes[i]) :
            Cardinality({j \in DOMAIN passes[i].dep :
                            /\ passes[i].dep[j].type = "dependency"
                            /\ passes[i].dep[j].source_id = classes[i].id
                            /\ \E target \in Named(classes, n) :
                                  passes[i].dep[j].target_id = target.id}) = 1

\* C7, as claimed: the returned list is all inheritance relationships, then all
\* composition/aggregation relationships, then all dependency relationships.
C7_PassAfterPass ==
    pc = "done" =>
        package.relationships =
            Concat([i \in DOMAIN passes |-> passes[i].inh])
            \o Concat([i \in DOMAIN passes |-> passes[i].comp])
            \o Concat([i \in DOMAIN passes |-> passes[i].dep])

\* C7, amended: the returned list is, class after class in the order of the
\* class list, the class's inheritance relationships, then its
\* composition/aggregation relationships, then its dependency relationships.
C7_ClassAfterClass ==
    pc = "done" =>
        /\ Len(passes) = Len(package.classes)
        /\ package.relationships =
              Concat([i \in DOMAIN passes |->
                         passes[i].inh \o passes[i].comp \o passes[i].dep])
        /\ \A i \in DOMAIN passes :
              /\ \A r \in Range(passes[i].inh) : r.type = "inheritance"
              /\ \A r \in Range(passes[i].comp) : r.type \in {"composition", "aggregation"}
              /\ \A r \in Range(passes[i].dep) : r.type = "dependency"
              /\ \A r \in Range(passes[i].inh \o passes[i].comp \o passes[i].dep) :
                    r.source_id = package.classes[i].id

\* a unit in which an earlier class has an attribute relationship and a later
\* class an inheritance relationship
C7_Witness ==
    /\ pc = "done"
    /\ \E i, j \in DOMAIN passes :
          /\ i < j
          /\ passes[i].comp # <<>>
          /\ passes[j].inh # <<>>

(***************************************************************************)
(* Properties of the type annotation resolver (SpecTypes).                 *)
(***************************************************************************)
\* the expression T | None
OrNone(T) == ast_BinOp(T, "BitOr", NoneConstant)

\* the expression None | T
NoneOr(T) == ast_BinOp(NoneConstant, "BitOr", T)

\* ann is Optional[T] or typing.Optional[T], T a single argument
IsOptionalOf(e) ==
    /\ e.kind = "Subscript"
    /\ e.value \in {ast_Name("Optional"), ast_Attribute(ast_Name("typing"), "Optional")}
    /\ e.slice.kind # "Tuple"

\* the operands of T (T itself when it is no infix union) that do not resolve
\* to a type named None
NonNoneOperands(T) ==
    SelectSeq(collect_union_types(T),
              LAMBDA operand : _parse_type_annotation(operand).name # "None")

\* the descriptor of T with is_optional = true
OptionalDescriptor(T) == [_parse_type_annotation(T) EXCEPT !.is_optional = TRUE]

\* C8, as claimed: for every annotation T, Optional[T], T | None and None | T
\* resolve to the descriptor of T with is_optional = true.
C8_OptionalFormsAgree ==
    (tpc = "parsed" /\ IsOptionalOf(ann)) =>
        LET T == ann.slice
        IN  /\ resolved = OptionalDescriptor(T)
            /\ _parse_type_annotation(OrNone(T)) = resolved
            /\ _parse_type_annotation(NoneOr(T)) = resolved

\* C8, amended: the three forms agree for every T with exactly one operand that
\* does not resolve to None (T itself when T is no infix union); a simple
\* identifier gives its name, is_optional = true and no type arguments.
C8_OptionalFormsAgreeOneOperand ==
    (tpc = "parsed" /\ IsOptionalOf(ann) /\ Len(NonNoneOperands(ann.slice)) = 1) =>
        LET T == ann.slice
        IN  /\ resolved = OptionalDescriptor(T)
            /\ _parse_type_annotation(OrNone(T)) = resolved
            /\ _parse_type_annotation(NoneOr(T)) = resolved
            /\ T.kind = "Name" => resolved = TypeReference(T.id, NONE, <<>>, TRUE)

\* Optional[T] resolved for a generic T and for a simple identifier
C8_Witness ==
    /\ tpc = "parsed"
    /\ IsOptionalOf(ann)
    /\ ann.slice = ast_Subscript(ast_Name("List"), ast_Name("A"))
    /\ resolved.is_optional
    /\ resolved.name = "List"

\* ann is an infix union with more than one operand that is not None
IsProperUnion(e) ==
    /\ e.kind = "BinOp"
    /\ e.op = "BitOr"
    /\ Len(NonNoneOperands(e)) > 1

\* the resolved operands of an infix union, None included
ResolvedOperands(e) ==
    LET operands == collect_union_types(e)
    IN  [i \in DOMAIN operands |-> TypeStr(_parse_type_annotation(operands[i]))]

\* C9, as claimed: an infix union with more than one non-None operand resolves
\* to the name Union[arg1, arg2, ...], the form of the subscripted Union.
C9_UnionWrapperForm ==
    (tpc = "parsed" /\ IsProperUnion(ann)) =>
        resolved = SimpleType("Union[" \o Join(", ", ResolvedOperands(ann)) \o "]")

\* C9, amended: it resolves to the name made of its resolved operands, None
\* included, joined by " | ", with no type arguments and is_optional = false.
C9_UnionBarForm ==
    (tpc = "parsed" /\ IsProperUnion(ann)) =>
        /\ resolved.name = Join(" | ", ResolvedOperands(ann))
        /\ resolved.type_arguments = <<>>
        /\ resolved.is_optional = FALSE

\* a resolved union of two operands and None
C9_Witness ==
    /\ tpc = "parsed"
    /\ IsProperUnion(ann)
    /\ Len(collect_union_types(ann)) = 3
    /\ \E i \in 1..3 : collect_union_types(ann)[i] = NoneConstant
    /\ ~resolved.is_optional

RecognizedKinds == {"Name", "Constant", "Subscript", "BinOp", "Attribute"}

\* the annotation is an empty string literal, alone or as the argument of
\* Optional[...] or as the one operand besides None of an infix union
RECURSIVE ReducesToEmptyLiteral(_)
ReducesToEmptyLiteral(e) ==
    CASE e.kind = "Constant" -> e.value = PyStrValue("")
      [] e.kind = "Subscript" ->
            /\ SubscriptBase(e).base_name = "Optional"
            /\ ReducesToEmptyLiteral(IF e.slice.kind = "Tuple" THEN e.slice.elts[1] ELSE e.slice)
      [] e.kind = "BinOp" /\ e.op = "BitOr" ->
            /\ Len(NonNoneOperands(e)) = 1
            /\ Len(collect_union_types(e)) > 1
            /\ ReducesToEmptyLiteral(NonNoneOperands(e)[1])
      [] OTHER -> FALSE

ExtractedTwice == pc = "done" /\ previous # NoResult

NamesAndIds(cs) == [i \in DOMAIN cs |-> <<cs[i].name, cs[i].id>>]

\* C11: the two Packages of two extractions of one text have the same class
\* names and class ids in the same order and the same relationships (type,
\* source_id, target_id, roles) in the same order, the order of the dependency
\* relationships of one class included.
C11_SameListsTwice ==
    ExtractedTwice =>
        /\ NamesAndIds(package.classes) = NamesAndIds(previous.classes)
        /\ package.relationships = previous.relationships

\* C12: every extracted attribute's id is unique among the attributes of its
\* class, and two extractions of one text give each attribute the same id.
C12_AttributeIdsRepeat ==
    /\ pc = "done" =>
          \A c \in DOMAIN package.classes :
              \A i, j \in DOMAIN package.classes[c].attributes :
                  i # j => package.classes[c].attributes[i].id
                               # package.classes[c].attributes[j].id
    /\ ExtractedTwice =>
          \A c \in DOMAIN package.classes :
              \A i \in DOMAIN package.classes[c].attributes :
                  package.classes[c].attributes[i].id = previous.classes[c].attributes[i].id

(***************************************************************************)
(* Properties of parse_folder_to_project and of serialization (SpecFolder).*)
(***************************************************************************)
\* the classes of the Project returned
ProjectClasses == project.packages[1].classes

\* the files of the folder that ast.parse rejects, and the others
FailingFiles == {i \in DOMAIN files : files[i].error # NoSyntaxError}
ParsableFiles == DOMAIN files \ FailingFiles

\* C13: a class's id is a function of its name and the path of its unit: classes
\* of one name from one path have one id, and classes of one name from units
\* with different paths have different ids.
C13_IdFromNameAndPath ==
    fpc = "returned" =>
        \A i, j \in DOMAIN ProjectClasses :
            LET c == ProjectClasses[i]
                d == ProjectClasses[j]
            IN  c.name = d.name =>
                    (c.id = d.id <=> c.metadata["source_file"] = d.metadata["source_file"])

\* the message holds the name, between two of the parts the messages are made of
MessageHeads == {"", "Syntax error in ", "Syntax error: "}
MessageTails ==
    {""} \cup {": " \o SyntaxErrorStr(files[i].error, AbsolutePath(j)) :
                  i \in FailingFiles, j \in DOMAIN files}
NamesUnit(message, name) ==
    \E head \in MessageHeads, tail \in MessageTails : message = head \o name \o tail

C15_BatchSkipsFailedFile ==
    (/\ fpc \in {"returned", "raised"}
     /\ FailingFiles # {}
     /\ \E i \in ParsableFiles : files[i].tree # <<>>) =>
        /\ fpc = "returned"
        /\ \A i \in ParsableFiles : \A n \in DOMAIN files[i].tree :
              \E c \in DOMAIN ProjectClasses :
                  /\ ProjectClasses[c].name = files[i].tree[n].name
                  /\ ProjectClasses[c].metadata["source_file"] = RelativePath(i)

\* C16: to_dict followed by from_dict is lossless: the Project read back equals the
\* Project written, in its ids and the ids, names, attributes, methods, base
\* classes and metadata of its packages' classes.
C16_RoundTripLossless ==
    fpc = "loaded" => loaded = project

(***************************************************************************)
(* Properties of parallel extraction (SpecParallel).                       *)
(***************************************************************************)
\* the classes of a thread's own text
OwnClasses(t) ==
    [n \in DOMAIN threads[t].tree |-> _extract_class(threads[t].tree[n], ThreadBits(t, n))]

\* the Package a thread's call returned holds the classes and the relationships
\* of the thread's own text
OwnPackage(t) ==
    /\ lists[threads[t].package.classes] = OwnClasses(t)
    /\ threads[t].package.relationships
          \in InferredRelationships(OwnClasses(t), Len(OwnClasses(t)))

\* C17: under any interleaving of two parse_source calls on different texts, each
\* Package returned holds exactly the classes and the relationships derived from
\* the text of its own call.
C17_ParallelCallsIndependent ==
    (\A t \in Threads : threads[t].pc = "done") => \A t \in Threads : OwnPackage(t)

(***************************************************************************)
(* Properties of member extraction (SpecMember).                           *)
(***************************************************************************)
\* the name a declaration declares
DeclaredName(d) ==
    IF d.kind = "FunctionDef" THEN d.name
    ELSE IF d.target.kind = "Name" THEN d.target.id
    ELSE d.target.attr

Dunder(name) == startswith(name, "__") /\ endswith(name, "__")

\* the three tiers: private for two leading underscores without two trailing ones,
\* protected for a single leading underscore, public otherwise
ThreeTier(name) ==
    IF startswith(name, "__") /\ ~endswith(name, "__") THEN "private"
    ELSE IF startswith(name, "_") /\ ~startswith(name, "__") THEN "protected"
    ELSE "public"

\* C18: the visibility of every extracted attribute and method is the three-tier
\* function of its name: private for a double leading underscore without a double
\* trailing one, protected for a single leading underscore, public otherwise,
\* names like __init__ included.
C18_VisibilityThreeTier ==
    mpc = "extracted" => member.visibility = ThreeTier(DeclaredName(decl))

\* the parameters of a declaration in the order they are declared
DeclaredArgs(arguments) ==
    arguments.posonlyargs \o arguments.args
    \o (IF arguments.vararg # NoNode THEN <<arguments.vararg>> ELSE <<>>)
    \o arguments.kwonlyargs
    \o (IF arguments.kwarg # NoNode THEN <<arguments.kwarg>> ELSE <<>>)

WithoutReceiver(args) == IF args = <<>> THEN <<>> ELSE Tail(args)

\* C19: the recorded parameter list of an extracted method is the declared
\* parameter list in order, without its first entry when the method is not static
\* and whole when it is; no other declared parameter is missing.
C19_ParametersAreDeclaration ==
    mpc = "extracted" /\ decl.kind = "FunctionDef" =>
        LET declared == DeclaredArgs(decl.args)
            expected == IF member.is_static THEN declared ELSE WithoutReceiver(declared)
        IN  member.parameters = [i \in DOMAIN expected |-> _extract_parameter(expected[i])]

\* the decorator is name, bare or reached through a module
IsDecorator(decorator, name) ==
    \/ decorator.kind = "Name" /\ decorator.id = name
    \/ decorator.kind = "Attribute" /\ decorator.attr = name

Decorated(d, name) ==
    \E i \in DOMAIN d.decorator_list : IsDecorator(d.decorator_list[i], name)

\* C20: is_static, is_class_method and is_abstract of an extracted method are true
\* exactly when its decorator list holds staticmethod, classmethod and
\* abstractmethod, as a bare name or module-qualified.
C20_FlagsFollowDecorators ==
    mpc = "extracted" /\ decl.kind = "FunctionDef" =>
        /\ member.is_static = Decorated(decl, "staticmethod")
        /\ member.is_class_method = Decorated(decl, "classmethod")
        /\ member.is_abstract = Decorated(decl, "abstractmethod")

(***************************************************************************)
(* Properties of class extraction (SpecClass).                             *)
(***************************************************************************)
\* the callable declarations directly in a class body, in body order
Callables(node) ==
    SelectSeq(node.body, LAMBDA item : item.kind \in {"FunctionDef", "AsyncFunctionDef"})

\* C21: the methods of an extracted class are, one for one and in body order, the
\* callable declarations directly in the class body; callables nested inside a
\* method add none.
C21_MethodPerCallable ==
    cpc = "extracted" =>
        /\ Len(extracted.methods) = Len(Callables(classdef))
        /\ \A i \in DOMAIN extracted.methods :
              extracted.methods[i].name = Callables(classdef)[i].name

\* the simple and annotated assignments directly in a class body
TopAssignments(node) ==
    {i \in DOMAIN node.body : node.body[i].kind \in {"Assign", "AnnAssign"}}

\* the names an assignment binds: its Name targets and the Names of its Tuple targets
BoundNames(item) ==
    IF item.kind = "AnnAssign"
    THEN (IF item.target.kind = "Name" THEN {item.target.id} ELSE {})
    ELSE UNION { IF item.targets[i].kind = "Name" THEN {item.targets[i].id}
                 ELSE IF item.targets[i].kind = "Tuple"
                 THEN {item.targets[i].elts[j].id : j \in DOMAIN item.targets[i].elts}
                 ELSE {} : i \in DOMAIN item.targets }

\* the type of the attribute of an assignment: the resolved annotation, or the type
\* named after the literal shape of the value
ShapeTypeName(value) ==
    CASE value.kind = "Constant" -> value.value.type
      [] value.kind = "List" -> "list"
      [] value.kind = "Dict" -> "dict"
      [] value.kind = "Set" -> "set"
      [] value.kind = "Tuple" -> "tuple"
      [] OTHER -> "Any"

AssignmentType(item) ==
    IF item.kind = "AnnAssign" THEN _parse_type_annotation(item.annotation)
    ELSE SimpleType(ShapeTypeName(item.value))

\* C22: every simple or annotated assignment directly in a class body has become a
\* static attribute with a type: the resolved annotation, or the type inferred
\* from the literal shape of the value; a plainly named attribute is public.
C22_StaticAttributePerAssignment ==
    cpc = "extracted" =>
        \A i \in TopAssignments(classdef) :
            \E j \in DOMAIN extracted.attributes :
                LET attr == extracted.attributes[j]
                IN  /\ attr.name \in BoundNames(classdef.body[i])
                    /\ attr.is_static
                    /\ attr.type # NoType
                    /\ attr.type = AssignmentType(classdef.body[i])
                    /\ attr.visibility = "public"

\* the statements of a body and of the bodies nested in it
RECURSIVE Walk(_)
Walk(stmts) ==
    IF stmts = <<>> THEN <<>>
    ELSE <<Head(stmts)>>
         \o (IF Head(stmts).kind = "If" THEN Walk(Head(stmts).body) ELSE <<>>)
         \o Walk(Tail(stmts))

\* the names assigned through the receiver (the first parameter) in a method
ReceiverAssigned(method) ==
    IF method.args.args = <<>> THEN {}
    ELSE LET receiver == method.args.args[1].arg
             OnReceiver(target) ==
                 /\ target.kind = "Attribute"
                 /\ target.value.kind = "Name"
                 /\ target.value.id = receiver
             stmts == Walk(method.body)
         IN  UNION { IF stmts[i].kind = "Assign"
                     THEN {stmts[i].targets[j].attr :
                              j \in {t \in DOMAIN stmts[i].targets : OnReceiver(stmts[i].targets[t])}}
                     ELSE IF stmts[i].kind = "AnnAssign" /\ OnReceiver(stmts[i].target)
                     THEN {stmts[i].target.attr}
                     ELSE {} : i \in DOMAIN stmts }

\* the names the initializers of a class body assign through their receiver
InitializerAssigned(node) ==
    UNION { ReceiverAssigned(node.body[i]) :
               i \in {b \in DOMAIN node.body : /\ node.body[b].kind = "FunctionDef"
                                               /\ node.body[b].name = "__init__"} }

\* C23: the non-static attributes of an extracted class are exactly the names
\* assigned through the receiver parameter anywhere in the body of __init__,
\* whatever the receiver is called; assignments in other methods add none.
C23_InitializerAttributes ==
    cpc = "extracted" =>
        { extracted.attributes[j].name :
             j \in {a \in DOMAIN extracted.attributes : ~extracted.attributes[a].is_static} }
        = InitializerAssigned(classdef)

\* the recognized abstract-base marker names
AbstractMarkers == {"ABC", "ABCMeta"}

\* the name is, or ends with, a marker name
IsOrEndsWithMarker(name) ==
    \E marker \in AbstractMarkers : \E head \in BaseHeads : name = head \o marker

\* C24: an extracted class is flagged abstract exactly when one of its base names
\* is, or ends with, ABC or ABCMeta, whether the base is a simple name or a
\* dotted reference.
C24_AbstractByBaseName ==
    cpc = "extracted" =>
        (extracted.is_abstract
            <=> \E i \in DOMAIN extracted.base_classes :
                    IsOrEndsWithMarker(extracted.base_classes[i]))

(***************************************************************************)
(* Properties of the base type name (SpecTypes).                           *)
(***************************************************************************)
\* C25, as claimed: the base type name is the type's own name when it has no type
\* arguments and the name of the argument T for a single-argument generic G[T]:
\* exactly one level is unwrapped.
C25_OneLevelUnwrapped ==
    tpc = "matched" =>
        /\ resolved.type_arguments = <<>> => base_type_name = resolved.name
        /\ Len(resolved.type_arguments) = 1 => base_type_name = resolved.type_arguments[1].name

\* the types met by going from a type to its first type argument, again and again
RECURSIVE FirstArgumentChain(_)
FirstArgumentChain(t) ==
    IF t.type_arguments = <<>> THEN <<t>>
    ELSE <<t>> \o FirstArgumentChain(t.type_arguments[1])

\* C25, amended: the base type name is the name of the type without type arguments
\* reached by going to the first type argument at every level, however many levels
\* and however many arguments there are; List[T] gives the name of T.
C25_FirstArgumentsUnwrapped ==
    tpc = "matched" =>
        LET chain == FirstArgumentChain(resolved)
        IN  /\ base_type_name = chain[Len(chain)].name
            /\ chain[Len(chain)].type_arguments = <<>>
            /\ ann = ListOf(ast_Name("A")) => base_type_name = "A"

\* List[List[A]] matched: two levels are unwrapped
C25_Witness ==
    /\ tpc = "matched"
    /\ ann = ListOf(ListOf(ast_Name("A")))
    /\ resolved.name = "List"
    /\ resolved.type_arguments[1].name = "List"
    /\ base_type_name = "A"

(***************************************************************************)
(* Properties of dotted base entries (Spec).                               *)
(***************************************************************************)
\* the base entries of the i-th class of the text that are dotted references
DottedBases(i) == SelectSeq(source[i].bases, LAMBDA base : base.kind = "Attribute")

\* the inheritance pass of the i-th class returned a relationship to the class named n
InheritsFrom(i, n) ==
    \E j \in DOMAIN passes[i].inh :
        \E target \in Named(classes, n) : passes[i].inh[j].target_id = target.id

SimpleInUnitBases(i) ==
    SelectSeq(source[i].bases,
              LAMBDA base : base.kind = "Name" /\ base.id \in ClassNamesOf(classes))

AsFreshParser(n) ==
    LET file == returned[n].text
        result == returned[n].result
        cs == ExtractedClasses(file.tree, n)
    IN  IF file.error # NoSyntaxError
        THEN result = SyntaxValueError("<string>", file.error)
        ELSE /\ ~Raised(result)
             /\ result.name = "parsed"
             /\ lists[result.classes] = cs
             /\ result.relationships \in InferredRelationships(cs, Len(cs))

\* C27: after any sequence of parse_source calls on one parser, failed calls
\* included, what each call returned is what a new parser returns for its text,
\* and the classes and relationships of the Package of an earlier call are as
\* they were returned.
C27_CallsAreStateless == \A n \in DOMAIN returned : AsFreshParser(n)

\* a Package with classes and relationships, then a failed call, then another Package
C27_Witness ==
    /\ Len(returned) = 3
    /\ ~Raised(returned[1].result)
    /\ Len(lists[returned[1].result.classes]) = 2
    /\ returned[1].result.relationships # <<>>
    /\ Raised(returned[2].result)
    /\ ~Raised(returned[3].result)
    /\ returned[3].result.classes # returned[1].result.classes
    /\ lists[returned[3].result.classes] # lists[returned[1].result.classes]

(***************************************************************************)
(* Properties of class identifiers (Spec, SpecFolder).                     *)
(***************************************************************************)
\* no two entries of a list of classes share an id
UniqueIds(cs) == \A i, j \in DOMAIN cs : i # j => cs[i].id # cs[j].id

\* C28: in the Package parse_source returns, no two entries of the classes list
\* share an id, repeated declarations of one name included.
C28_ClassIdsUnique == pc = "done" => UniqueIds(package.classes)

\* every relationship of the package starts and ends at the id of a class of the package
EndpointsInPackage(pkg) ==
    \A i \in DOMAIN pkg.relationships :
        /\ pkg.relationships[i].source_id \in Ids(pkg.classes)
        /\ pkg.relationships[i].target_id \in Ids(pkg.classes)

\* C29: in a Project built by parse_folder_to_project, written with to_dict and
\* read back with from_dict, every relationship of each package still starts and
\* ends at the id of a class of that package.
C29_EndpointsAfterLoad ==
    fpc = "loaded" => \A i \in DOMAIN loaded.packages : EndpointsInPackage(loaded.packages[i])

(***************************************************************************)
(* Properties of self-references (Spec).                                   *)
(***************************************************************************)
\* a relationship of one of the types, from the class to itself
SelfReference(rels, cls, types) ==
    \E j \in DOMAIN rels :
        /\ rels[j].type \in types
        /\ rels[j].source_id = cls.id
        /\ rels[j].target_id = cls.id

\* C30: a class whose own name is the base type name of one of its attributes gets
\* a composition or aggregation from itself to itself; a class whose own name is
\* the base type name of a parameter or return type of one of its methods, and
\* of none of its attributes, gets a dependency from itself to itself.
C30_SelfReferencesKept ==
    \A i \in DOMAIN passes :
        LET cls == classes[i]
        IN  /\ cls.name \in AttributeTypeNames(cls)
                => SelfReference(passes[i].comp, cls, {"composition", "aggregation"})
            /\ (cls.name \in SignatureTypeNames(cls) /\ cls.name \notin AttributeTypeNames(cls))
                => SelfReference(passes[i].dep, cls, {"dependency"})

====
